---------------------------- MODULE Spec2Model ----------------------------
(***************************************************************************)
(* Animal Explorer AI: session tracking, rate limiting, response caching   *)
(* and the lazy orchestration run that a status poll drives                *)
(* (src/web_app.py, src/session_service.py, src/rate_limiter.py,           *)
(* src/cache_service.py).                                                  *)
(*                                                                         *)
(* Two deployments are modelled, chosen at construction                    *)
(* (SessionService.__init__):                                              *)
(*   backend = "redis"   several serverless instances share one Redis;     *)
(*                       requests interleave at every store round trip     *)
(*                       and at every provider call;                       *)
(*   backend = "memory"  one process keeps everything in the dict          *)
(*                       fallback_sessions; a request runs without         *)
(*                       interruption between two awaits, and the session  *)
(*                       dict a handler holds IS the stored dict.          *)
(* In the specifications of this module every Redis round trip is          *)
(* answered (no exception is raised by the client library).                *)
(***************************************************************************)
EXTENDS Integers, Sequences, FiniteSets, TLC

VARIABLES
    backend,      \* "redis" | "memory": SessionService.redis_client set or None
    now,          \* int(time.time())
    redis,        \* the durable store, one map per key prefix
    fallback,     \* SessionService.fallback_sessions, one map per key family
    nextId,       \* number of sessions created so far (ids 1..nextId stand for uuid4())
    poll,         \* the status requests in flight: position and local variables
    infoCalls,    \* per session: invocations of the information provider
    imageCalls,   \* per session: invocations of the image provider
    overlap,      \* per session: some poll started while another poll of it was in flight
    rlLog,        \* the metered client's rate-limit checks, oldest first: time and verdict
    rlLast,       \* what the last rate-limit check returned, and for which client
    calls         \* the calls made on the session store and what each returned

vars == <<backend, now, redis, fallback, nextId, poll, infoCalls, imageCalls,
          overlap, rlLog, rlLast, calls>>

---------------------------------------------------------------------------
(* Bounds of the model *)

MaxSessions == 1
MaxPolls == 2
MaxChecks == 7
MaxFaultChecks == 2
MaxStoreIds == 2
MaxStoreCalls == 4
MaxRacingChecks == 3
MaxTimedChecks == 3

(* Program constants *)

MINUTE_LIMIT == 5
HOUR_LIMIT == 20
DAY_LIMIT == 60
MINUTE_TTL == 60
HOUR_TTL == 3600
DAY_TTL == 86400
BLACKLIST_TTL == 3600
SESSION_TTL == 3600
ANIMAL_INFO_TTL == 604800
ANIMAL_IMAGE_TTL == 1209600
ANALYTICS_TTL == 2592000
DAILY_ANALYTICS_TTL == 604800

\* A midnight (UTC) of the epoch clock, where a minute, an hour and a day begin.
T0 == 19676 * 86400

None == "None"
NoRec == [none |-> TRUE]

Put(f, k, v) == [x \in (DOMAIN f) \cup {k} |-> IF x = k THEN v ELSE f[x]]
Del(f, k) == [x \in (DOMAIN f) \ {k} |-> f[x]]
Get(f, k, dflt) == IF k \in DOMAIN f THEN f[k] ELSE dflt
Min(a, b) == IF a <= b THEN a ELSE b

---------------------------------------------------------------------------
(* Text.  A query is a sequence of characters; str.lower and str.strip     *)
(* are computed on it.                                                     *)

LowerChar(c) ==
    CASE c = "L" -> "l"
      [] c = "E" -> "e"
      [] c = "O" -> "o"
      [] c = "P" -> "p"
      [] OTHER -> c

Lower(s) == [i \in 1..Len(s) |-> LowerChar(s[i])]

RECURSIVE LStrip(_)
LStrip(s) == IF s # <<>> /\ Head(s) = " " THEN LStrip(Tail(s)) ELSE s

RECURSIVE RStrip(_)
RStrip(s) ==
    IF s # <<>> /\ s[Len(s)] = " " THEN RStrip(SubSeq(s, 1, Len(s) - 1)) ELSE s

Strip(s) == RStrip(LStrip(s))

\* identifier.lower().strip()
Normalize(identifier) == Strip(Lower(identifier))

\* hashlib.md5(s.encode('utf-8')).hexdigest(), on the texts of the model
md5(s) ==
    CASE s = <<"l", "e", "o">> -> "0f759dd1ea6c4c76cedc299039ca4f23"
      [] s = <<"p", "i", "k">> -> "dd0541a25a51efc0399fb4fefe396d18"
      [] s = <<"L", "e", "o", " ">> -> "e3adcd234186f9e663fbed37d3ea57c0"
      [] s = <<"L", "E", "O">> -> "69989ec462323ece2dc044df74c86fed"

\* A key taken from the query as typed
_get_cache_key_raw(identifier) == md5(identifier)

\* The prefix of the key is the map the entry is kept in (cinfo, cimage)
_get_cache_key(identifier) == md5(Normalize(identifier))

Queries == { <<"L", "e", "o", " ">>, <<"p", "i", "k">> }

\* Two spellings of one animal and another animal
KeyQueries == { <<"L", "e", "o", " ">>, <<"L", "E", "O">>, <<"p", "i", "k">> }

---------------------------------------------------------------------------
(* The information provider's reply.  A content is a text; the model names *)
(* the texts it uses and gives, for each, what the regular expressions of  *)
(* is_valid_animal and extract_english_name find in it:                    *)
(*   valido       the rest of the line after **VALIDO:** (None: no marker) *)
(*   razon        the rest of the line after **Razón:**  (None: absent)    *)
(*   sugerencias  the comma-separated items after **Sugerencias:**         *)
(*   nombre_en    the rest of the line after **Nombre_EN:** (<<>>: absent) *)

Contents == {"txt_lion", "txt_leon", "txt_pikachu", "txt_garbled"}

ContentFields(c) ==
    CASE c = "txt_lion" ->
           [valido |-> " SI", razon |-> None, sugerencias |-> <<>>,
            nombre_en |-> <<"*", "l", "i", "o", "n", "*", " ">>]
      [] c = "txt_leon" ->
           [valido |-> "si", razon |-> None, sugerencias |-> <<>>,
            nombre_en |-> <<>>]
      [] c = "txt_pikachu" ->
           [valido |-> "NO", razon |-> "personaje ficticio",
            sugerencias |-> <<"el pika", "x", "Busca un raton", "raton", "liebre", "topo">>,
            nombre_en |-> <<>>]
      [] OTHER ->
           [valido |-> None, razon |-> None, sugerencias |-> <<>>,
            nombre_en |-> <<>>]

\* valid_match.group(1).strip().upper()
UpperStrip(t) ==
    CASE t = " SI" -> "SI"
      [] t = "si" -> "SI"
      [] OTHER -> t

\* One item of the suggestions line after the strips and the removal of the
\* unwanted phrases ('el ', 'la ', 'un ', 'Busca información sobre ', ...)
CleanSuggestion(raw) ==
    CASE raw = "el pika" -> "pika"
      [] raw = "Busca un raton" -> "Busca raton"
      [] OTHER -> raw

\* len(clean) > 1 and none of 'busca', 'información', 'sobre' in clean.lower()
KeepSuggestion(clean) == clean \notin {"", "x", "Busca raton"}

RECURSIVE ParseSuggestions(_)
ParseSuggestions(items) ==
    IF items = <<>> THEN <<>>
    ELSE LET c == CleanSuggestion(Head(items))
         IN  (IF KeepSuggestion(c) THEN <<c>> ELSE <<>>) \o ParseSuggestions(Tail(items))

\* A validation that lets every reply pass
is_valid_animal_lenient(animal_info) ==
    [is_valid |-> TRUE, reason |-> "", suggestions |-> <<>>]

is_valid_animal(animal_info) ==
    LET f == ContentFields(animal_info)
    IN  IF f.valido # None /\ UpperStrip(f.valido) = "SI"
        THEN [is_valid |-> TRUE, reason |-> "", suggestions |-> <<>>]
        ELSE IF f.valido # None /\ UpperStrip(f.valido) = "NO"
        THEN [is_valid |-> FALSE,
              reason |-> IF f.razon # None THEN f.razon ELSE "No es un animal valido",
              suggestions |-> ParseSuggestions(f.sugerencias)]
        ELSE [is_valid |-> FALSE, reason |-> "Respuesta inesperada del sistema",
              suggestions |-> <<>>]

\* re.sub(r'[\*\[\]_]', '', name).strip(); "" when the field is absent
extract_english_name(animal_info) ==
    LET raw == ContentFields(animal_info).nombre_en
        IsKept(ch) == ch \notin {"*", "[", "]", "_"}
    IN  Strip(SelectSeq(Strip(raw), IsKept))

InfoResults ==
    [success : {TRUE}, content : Contents, error : {None}]
    \cup [success : {FALSE}, content : {None}, error : {"Connection failed"}]

\* What the awaited image call yields at web_app.py 379-399: the provider's
\* reply, or the reply built when the 50 s deadline passes first.
ImageResults ==
    [success : {TRUE}, image_data_url : {"img_1", "img_2"}, error : {None}]
    \cup [success : {FALSE}, image_data_url : {None},
          error : {"Image generation failed", "Image generation timeout"}]

NoResult == [success |-> FALSE, content |-> None, error |-> None]
NoImageResult == [success |-> FALSE, image_data_url |-> None, error |-> None]

SubSeqTo(s, n) == SubSeq(s, 1, Min(n, Len(s)))

\* error_message of web_app.py 330-338
InvalidMessage(animal, v) ==
    [kind |-> "invalid", text |-> v.reason, names |-> SubSeqTo(v.suggestions, 3)]

ErrorMessage(kind, text) == [kind |-> kind, text |-> text, names |-> <<>>]

---------------------------------------------------------------------------
(* The stores.  A value S of the form                                      *)
(*   [redis, fallback, poll, infoCalls, imageCalls]                        *)
(* is the part of the state an operation reads and writes; the operators   *)
(* below compute the operation's result and the state it leaves.           *)
(*   redis.sess    "session:<id>"              id  -> [v, exp]             *)
(*   redis.cinfo   "cache:animal_info:<md5>"   key -> [v, exp]             *)
(*   redis.cimage  "cache:animal_image:<md5>"  key -> [v, exp]             *)
(*   redis.ctr     "rate_limit:ip:<ip>:<w>"    <<ip, w>> -> [v, exp]       *)
(*   redis.bl      "blacklist:ip:<ip>"         ip  -> [v, exp]             *)
(*   redis.zset    "cache:analytics:..."       name -> [v, exp], v a map   *)
(*                                             member -> score             *)
(*   fallback.sess    <id>                     id  -> dict                 *)
(*   fallback.cinfo, fallback.cimage           key -> [data, expires_at]   *)
(*   fallback.ctr  "<rate key>:<bucket>"       <<ip, w, bucket>> -> count  *)
(*   fallback.bl   "blacklist:ip:<ip>"         ip  -> "blacklisted"        *)
(* A Redis key whose time to live has passed is gone: Tick removes it.     *)

EmptyMap == [x \in {} |-> None]

EmptyRedis ==
    [sess |-> EmptyMap, cinfo |-> EmptyMap, cimage |-> EmptyMap,
     ctr |-> EmptyMap, bl |-> EmptyMap, zset |-> EmptyMap]

EmptyFallback ==
    [sess |-> EmptyMap, cinfo |-> EmptyMap, cimage |-> EmptyMap,
     ctr |-> EmptyMap, bl |-> EmptyMap]

UseRedis == backend = "redis"

\* dict with one more key
With(d, k, v) == [x \in (DOMAIN d) \cup {k} |-> IF x = k THEN v ELSE d[x]]

Live(m, t) == [k \in {x \in DOMAIN m : m[x].exp > t} |-> m[k]]

Expire(r, t) ==
    [sess |-> Live(r.sess, t), cinfo |-> Live(r.cinfo, t), cimage |-> Live(r.cimage, t),
     ctr |-> Live(r.ctr, t), bl |-> Live(r.bl, t), zset |-> Live(r.zset, t)]

---------------------------------------------------------------------------
(* SessionService *)

create_session(S, session_id, data) ==
    LET d == With(With(data, "created_at", now), "last_updated", now)
    IN  IF UseRedis
        THEN [S EXCEPT !.redis.sess = Put(@, session_id, [v |-> d, exp |-> now + SESSION_TTL])]
        ELSE [S EXCEPT !.fallback.sess = Put(@, session_id, d)]

get_session(S, session_id) ==
    IF UseRedis
    THEN IF session_id \in DOMAIN S.redis.sess THEN S.redis.sess[session_id].v ELSE NoRec
    ELSE Get(S.fallback.sess, session_id, NoRec)

update_session(S, session_id, data) ==
    LET d == With(data, "last_updated", now)
    IN  IF UseRedis
        THEN [S EXCEPT !.redis.sess = Put(@, session_id, [v |-> d, exp |-> now + SESSION_TTL])]
        ELSE [S EXCEPT !.fallback.sess = Put(@, session_id, d)]

extend_session(S, session_id) ==
    IF UseRedis /\ session_id \in DOMAIN S.redis.sess
    THEN [S EXCEPT !.redis.sess[session_id].exp = now + SESSION_TTL]
    ELSE S

\* A delete that reports success whether or not the session was there
delete_session_always(S, session_id) ==
    IF UseRedis
    THEN [st |-> [S EXCEPT !.redis.sess = Del(@, session_id)], val |-> TRUE]
    ELSE [st |-> [S EXCEPT !.fallback.sess = Del(@, session_id)], val |-> TRUE]

\* Returns [st, val]: redis delete returns the number of keys removed
delete_session(S, session_id) ==
    IF UseRedis
    THEN [st |-> [S EXCEPT !.redis.sess = Del(@, session_id)],
          val |-> session_id \in DOMAIN S.redis.sess]
    ELSE IF session_id \in DOMAIN S.fallback.sess
    THEN [st |-> [S EXCEPT !.fallback.sess = Del(@, session_id)], val |-> TRUE]
    ELSE [st |-> S, val |-> FALSE]

\* data.get('created_at', 0)
CreatedAt(data) == IF "created_at" \in DOMAIN data THEN data.created_at ELSE 0

cleanup_expired_sessions(S) ==
    IF ~UseRedis
    THEN LET expired_sessions == {i \in DOMAIN S.fallback.sess :
                                     now - CreatedAt(S.fallback.sess[i]) > SESSION_TTL}
             \* the cache entries live in the same dict and carry no created_at
             Kept(m) == IF now - 0 > SESSION_TTL THEN EmptyMap ELSE m
         IN  [S EXCEPT !.fallback.sess = [i \in (DOMAIN @) \ expired_sessions |-> @[i]],
                       !.fallback.cinfo = Kept(@),
                       !.fallback.cimage = Kept(@)]
    ELSE S

---------------------------------------------------------------------------
(* CacheService.  A lookup returns [st, val]: the state it leaves (the     *)
(* in-memory lookup deletes an expired entry) and the value, NoRec for     *)
(* Python's None.                                                          *)

\* prefix is "cinfo" or "cimage"
_set_cache(S, prefix, key, data, ttl) ==
    IF UseRedis
    THEN [S EXCEPT !.redis[prefix] = Put(@, key, [v |-> data, exp |-> now + ttl])]
    ELSE [S EXCEPT !.fallback[prefix] = Put(@, key, [data |-> data, expires_at |-> now + ttl])]

\* A lookup that still serves an entry at the second it expires
_get_cache_late(S, prefix, key) ==
    IF UseRedis
    THEN [st |-> S,
          val |-> IF key \in DOMAIN S.redis[prefix] THEN S.redis[prefix][key].v ELSE NoRec]
    ELSE IF key \notin DOMAIN S.fallback[prefix]
    THEN [st |-> S, val |-> NoRec]
    ELSE IF now <= S.fallback[prefix][key].expires_at
    THEN [st |-> S, val |-> S.fallback[prefix][key].data]
    ELSE [st |-> [S EXCEPT !.fallback[prefix] = Del(@, key)], val |-> NoRec]

_get_cache(S, prefix, key) ==
    IF UseRedis
    THEN [st |-> S,
          val |-> IF key \in DOMAIN S.redis[prefix] THEN S.redis[prefix][key].v ELSE NoRec]
    ELSE IF key \notin DOMAIN S.fallback[prefix]
    THEN [st |-> S, val |-> NoRec]
    ELSE IF now < S.fallback[prefix][key].expires_at
    THEN [st |-> S, val |-> S.fallback[prefix][key].data]
    ELSE [st |-> [S EXCEPT !.fallback[prefix] = Del(@, key)], val |-> NoRec]

cache_animal_info(S, animal, info_data, english_name) ==
    _set_cache(S, "cinfo", _get_cache_key(animal),
               [animal |-> Normalize(animal), info |-> info_data,
                english_name |-> english_name, cached_at |-> now],
               ANIMAL_INFO_TTL)

cache_animal_image(S, animal, image_data_url, english_name) ==
    _set_cache(S, "cimage", _get_cache_key(animal),
               [animal |-> Normalize(animal), image |-> image_data_url,
                english_name |-> english_name, cached_at |-> now],
               ANIMAL_IMAGE_TTL)

get_cached_animal_info(S, animal) ==
    LET r == _get_cache(S, "cinfo", _get_cache_key(animal))
    IN  [st |-> r.st,
         val |-> IF r.val # NoRec /\ {"info", "animal"} \subseteq DOMAIN r.val
                 THEN [info |-> r.val.info, english_name |-> r.val.english_name,
                       cached_at |-> r.val.cached_at, from_cache |-> TRUE]
                 ELSE NoRec]

get_cached_animal_image(S, animal) ==
    LET r == _get_cache(S, "cimage", _get_cache_key(animal))
    IN  [st |-> r.st,
         val |-> IF r.val # NoRec /\ {"image", "animal"} \subseteq DOMAIN r.val
                 THEN [image |-> r.val.image, english_name |-> r.val.english_name,
                       cached_at |-> r.val.cached_at, from_cache |-> TRUE]
                 ELSE NoRec]

\* lines 156-173 of get_complete_cached_animal, on the two lookups' values
CompleteOf(info_cache, image_cache) ==
    IF info_cache # NoRec /\ image_cache # NoRec
    THEN [info |-> info_cache.info, image |-> image_cache.image,
          english_name |-> info_cache.english_name, from_cache |-> TRUE,
          cached_at |-> Min(info_cache.cached_at, image_cache.cached_at)]
    ELSE IF info_cache # NoRec
    THEN [info |-> info_cache.info, english_name |-> info_cache.english_name,
          from_cache |-> TRUE, partial_cache |-> TRUE,
          cached_at |-> info_cache.cached_at]
    ELSE NoRec

get_complete_cached_animal(S, animal) ==
    LET i == get_cached_animal_info(S, animal)
        g == get_cached_animal_image(i.st, animal)
    IN  [st |-> g.st, val |-> CompleteOf(i.val, g.val)]

\* zincrby + expire on the two sorted sets; nothing under the in-memory fallback
ZIncr(z, name, member, ttl) ==
    LET old == IF name \in DOMAIN z THEN z[name].v ELSE EmptyMap
    IN  Put(z, name, [v |-> Put(old, member, Get(old, member, 0) + 1), exp |-> now + ttl])

track_animal_search(S, animal) ==
    IF UseRedis
    THEN [S EXCEPT !.redis.zset =
            ZIncr(ZIncr(@, <<"searches", 0>>, Normalize(animal), ANALYTICS_TTL),
                  <<"daily", now \div 86400>>, Normalize(animal), DAILY_ANALYTICS_TTL)]
    ELSE S

---------------------------------------------------------------------------
(* RateLimiter.  A client is its address (_get_client_ip).                 *)

WHITELIST_IPS == {"179.60.74.141", "127.0.0.1", "::1"}

Clients == {"10.0.0.7", "127.0.0.1"}

WindowTtls == <<MINUTE_TTL, HOUR_TTL, DAY_TTL>>

_get_counter(S, ip, window) ==
    IF UseRedis
    THEN IF <<ip, window>> \in DOMAIN S.redis.ctr THEN S.redis.ctr[<<ip, window>>].v ELSE 0
    ELSE LET hits == {i \in 1..3 : <<ip, window, now \div WindowTtls[i]>> \in DOMAIN S.fallback.ctr}
             first == CHOOSE i \in hits : \A j \in hits : i <= j
         IN  IF hits = {} THEN 0
             ELSE S.fallback.ctr[<<ip, window, now \div WindowTtls[first]>>]

\* Returns [st, val].  Redis: get, then setex "1" or incr + expire.
_increment_counter(S, ip, window, ttl) ==
    IF UseRedis
    THEN LET k == <<ip, window>>
         IN  IF k \notin DOMAIN S.redis.ctr
             THEN [st |-> [S EXCEPT !.redis.ctr = Put(@, k, [v |-> 1, exp |-> now + ttl])],
                   val |-> 1]
             ELSE [st |-> [S EXCEPT !.redis.ctr[k] = [v |-> @.v + 1, exp |-> now + ttl]],
                   val |-> S.redis.ctr[k].v + 1]
    ELSE LET fallback_key == <<ip, window, now \div ttl>>
         IN  IF fallback_key \notin DOMAIN S.fallback.ctr
             THEN [st |-> [S EXCEPT !.fallback.ctr = Put(@, fallback_key, 1)], val |-> 1]
             ELSE [st |-> [S EXCEPT !.fallback.ctr[fallback_key] = @ + 1],
                   val |-> S.fallback.ctr[fallback_key] + 1]

_is_blacklisted(S, ip) ==
    IF UseRedis THEN ip \in DOMAIN S.redis.bl ELSE ip \in DOMAIN S.fallback.bl

_add_to_blacklist(S, ip) ==
    IF UseRedis
    THEN [S EXCEPT !.redis.bl = Put(@, ip, [v |-> "blacklisted", exp |-> now + BLACKLIST_TTL])]
    ELSE [S EXCEPT !.fallback.bl = Put(@, ip, "blacklisted")]

Denied(S, ip, limit_type, retry_after, count, limit) ==
    [st |-> S, allowed |-> FALSE,
     info |-> [status |-> "rate_limited", limit_type |-> limit_type,
               retry_after |-> retry_after, current_count |-> count,
               limit |-> limit, ip |-> ip]]

\* A check that looks at the blacklist before it looks at the allow-list
check_rate_limit_listed_last(S, client_ip) ==
    IF _is_blacklisted(S, client_ip)
    THEN [st |-> S, allowed |-> FALSE,
          info |-> [status |-> "blacklisted", retry_after |-> BLACKLIST_TTL, ip |-> client_ip]]
    ELSE [st |-> S, allowed |-> TRUE, info |-> [status |-> "whitelisted", ip |-> client_ip]]

\* A check that counts the request before it looks at the blacklist
check_rate_limit_counts_first(S, client_ip) ==
    IF client_ip \in WHITELIST_IPS
    THEN [st |-> S, allowed |-> TRUE, info |-> [status |-> "whitelisted", ip |-> client_ip]]
    ELSE LET m == _increment_counter(S, client_ip, "minute", MINUTE_TTL)
         IN  IF _is_blacklisted(S, client_ip)
             THEN [st |-> m.st, allowed |-> FALSE,
                   info |-> [status |-> "blacklisted", retry_after |-> BLACKLIST_TTL,
                             ip |-> client_ip]]
             ELSE [st |-> m.st, allowed |-> TRUE,
                   info |-> [status |-> "allowed", ip |-> client_ip,
                             limits |-> [minute |-> m.val, hour |-> 1, day |-> 1]]]

\* A check that looks at the coarsest window first: day, hour, minute
check_rate_limit_coarsest_first(S, client_ip) ==
    IF client_ip \in WHITELIST_IPS
    THEN [st |-> S, allowed |-> TRUE, info |-> [status |-> "whitelisted", ip |-> client_ip]]
    ELSE IF _is_blacklisted(S, client_ip)
    THEN [st |-> S, allowed |-> FALSE,
          info |-> [status |-> "blacklisted", retry_after |-> BLACKLIST_TTL, ip |-> client_ip]]
    ELSE LET minute_count == _get_counter(S, client_ip, "minute")
             hour_count == _get_counter(S, client_ip, "hour")
             day_count == _get_counter(S, client_ip, "day")
         IN  IF day_count >= DAY_LIMIT
             THEN Denied(S, client_ip, "day", 86400, day_count, DAY_LIMIT)
             ELSE IF hour_count >= HOUR_LIMIT
             THEN Denied(S, client_ip, "hour", 3600, hour_count, HOUR_LIMIT)
             ELSE IF minute_count >= MINUTE_LIMIT
             THEN Denied(S, client_ip, "minute", 60, minute_count, MINUTE_LIMIT)
             ELSE LET m == _increment_counter(S, client_ip, "minute", MINUTE_TTL)
                      h == _increment_counter(m.st, client_ip, "hour", HOUR_TTL)
                      d == _increment_counter(h.st, client_ip, "day", DAY_TTL)
                  IN  [st |-> d.st, allowed |-> TRUE,
                       info |-> [status |-> "allowed", ip |-> client_ip,
                                 limits |-> [minute |-> m.val, hour |-> h.val, day |-> d.val]]]

\* A check that counts a request it denies for the minute
check_rate_limit_counts_denied(S, client_ip) ==
    IF client_ip \in WHITELIST_IPS
    THEN [st |-> S, allowed |-> TRUE, info |-> [status |-> "whitelisted", ip |-> client_ip]]
    ELSE IF _is_blacklisted(S, client_ip)
    THEN [st |-> S, allowed |-> FALSE,
          info |-> [status |-> "blacklisted", retry_after |-> BLACKLIST_TTL, ip |-> client_ip]]
    ELSE LET minute_count == _get_counter(S, client_ip, "minute")
             hour_count == _get_counter(S, client_ip, "hour")
             day_count == _get_counter(S, client_ip, "day")
         IN  IF minute_count >= MINUTE_LIMIT
             THEN Denied(_increment_counter(S, client_ip, "minute", MINUTE_TTL).st,
                         client_ip, "minute", 60, minute_count, MINUTE_LIMIT)
             ELSE IF hour_count >= HOUR_LIMIT
             THEN Denied(S, client_ip, "hour", 3600, hour_count, HOUR_LIMIT)
             ELSE IF day_count >= DAY_LIMIT
             THEN Denied(S, client_ip, "day", 86400, day_count, DAY_LIMIT)
             ELSE LET m == _increment_counter(S, client_ip, "minute", MINUTE_TTL)
                      h == _increment_counter(m.st, client_ip, "hour", HOUR_TTL)
                      d == _increment_counter(h.st, client_ip, "day", DAY_TTL)
                  IN  [st |-> d.st, allowed |-> TRUE,
                       info |-> [status |-> "allowed", ip |-> client_ip,
                                 limits |-> [minute |-> m.val, hour |-> h.val, day |-> d.val]]]

\* Returns [st, allowed, info]
check_rate_limit(S, client_ip) ==
    IF client_ip \in WHITELIST_IPS
    THEN [st |-> S, allowed |-> TRUE, info |-> [status |-> "whitelisted", ip |-> client_ip]]
    ELSE IF _is_blacklisted(S, client_ip)
    THEN [st |-> S, allowed |-> FALSE,
          info |-> [status |-> "blacklisted", retry_after |-> BLACKLIST_TTL, ip |-> client_ip]]
    ELSE LET minute_count == _get_counter(S, client_ip, "minute")
             hour_count == _get_counter(S, client_ip, "hour")
             day_count == _get_counter(S, client_ip, "day")
         IN  IF minute_count >= MINUTE_LIMIT
             THEN Denied(S, client_ip, "minute", 60, minute_count, MINUTE_LIMIT)
             ELSE IF hour_count >= HOUR_LIMIT
             THEN Denied(S, client_ip, "hour", 3600, hour_count, HOUR_LIMIT)
             ELSE IF day_count >= DAY_LIMIT
             THEN Denied(S, client_ip, "day", 86400, day_count, DAY_LIMIT)
             ELSE LET m == _increment_counter(S, client_ip, "minute", MINUTE_TTL)
                      h == _increment_counter(m.st, client_ip, "hour", HOUR_TTL)
                      d == _increment_counter(h.st, client_ip, "day", DAY_TTL)
                  IN  [st |-> d.st, allowed |-> TRUE,
                       info |-> [status |-> "allowed", ip |-> client_ip,
                                 limits |-> [minute |-> m.val, hour |-> h.val, day |-> d.val]]]

\* The Redis round trips of one check that may raise (redis-py raises on a
\* lost connection or a timeout); the dict of the fallback never does.
\*   <<"bl", "get">>   the lookup of _is_blacklisted
\*   <<"get", w>>      the read of _get_counter for window w
\*   <<"inc", w>>      the first failing round trip of _increment_counter is
\*                     its get, its setex or its incr: nothing is written
\*   <<"exp", w>>      incr went through and the expire after it raises
Windows == {"minute", "hour", "day"}

StoreOps == {<<"bl", "get">>} \cup ({"get", "inc", "exp"} \X Windows)

\* A lookup that fails closed: a raised lookup counts as blacklisted
_is_blacklisted_closed(S, ip, F) ==
    IF UseRedis /\ <<"bl", "get">> \in F THEN TRUE ELSE _is_blacklisted(S, ip)

\* rate_limiter.py 111-120, F the round trips that raise
_is_blacklisted_x(S, ip, F) ==
    IF UseRedis /\ <<"bl", "get">> \in F THEN FALSE ELSE _is_blacklisted(S, ip)

\* rate_limiter.py 93-107
_get_counter_x(S, ip, window, F) ==
    IF UseRedis /\ <<"get", window>> \in F THEN 0 ELSE _get_counter(S, ip, window)

\* rate_limiter.py 60-89
_increment_counter_x(S, ip, window, ttl, F) ==
    LET k == <<ip, window>>
    IN  IF UseRedis /\ <<"inc", window>> \in F
        THEN [st |-> S, val |-> 1]
        ELSE IF UseRedis /\ <<"exp", window>> \in F /\ k \in DOMAIN S.redis.ctr
        THEN [st |-> [S EXCEPT !.redis.ctr[k].v = @ + 1], val |-> 1]
        ELSE _increment_counter(S, ip, window, ttl)

\* rate_limiter.py 136-229 with the round trips of F raising
check_rate_limit_x(S, client_ip, F) ==
    IF client_ip \in WHITELIST_IPS
    THEN [st |-> S, allowed |-> TRUE, info |-> [status |-> "whitelisted", ip |-> client_ip]]
    ELSE IF _is_blacklisted_x(S, client_ip, F)
    THEN [st |-> S, allowed |-> FALSE,
          info |-> [status |-> "blacklisted", retry_after |-> BLACKLIST_TTL, ip |-> client_ip]]
    ELSE LET minute_count == _get_counter_x(S, client_ip, "minute", F)
             hour_count == _get_counter_x(S, client_ip, "hour", F)
             day_count == _get_counter_x(S, client_ip, "day", F)
         IN  IF minute_count >= MINUTE_LIMIT
             THEN Denied(S, client_ip, "minute", 60, minute_count, MINUTE_LIMIT)
             ELSE IF hour_count >= HOUR_LIMIT
             THEN Denied(S, client_ip, "hour", 3600, hour_count, HOUR_LIMIT)
             ELSE IF day_count >= DAY_LIMIT
             THEN Denied(S, client_ip, "day", 86400, day_count, DAY_LIMIT)
             ELSE LET m == _increment_counter_x(S, client_ip, "minute", MINUTE_TTL, F)
                      h == _increment_counter_x(m.st, client_ip, "hour", HOUR_TTL, F)
                      d == _increment_counter_x(h.st, client_ip, "day", DAY_TTL, F)
                  IN  [st |-> d.st, allowed |-> TRUE,
                       info |-> [status |-> "allowed", ip |-> client_ip,
                                 limits |-> [minute |-> m.val, hour |-> h.val, day |-> d.val]]]

---------------------------------------------------------------------------
(* The orchestrator (web_app.py): submit, and the status poll that runs    *)
(* the research the first time it sees status "processing".               *)

Polls == 1..MaxPolls

NoResp == [code |-> 0, body |-> NoRec]

IdlePoll ==
    [pc |-> "idle", sid |-> 0, animal |-> <<>>, session_data |-> NoRec,
     info_cache |-> NoRec, cached_data |-> NoRec,
     info_result |-> NoResult, image_result |-> NoImageResult,
     english_name |-> <<>>, exc |-> None, ran_image |-> FALSE, resp |-> NoResp]

\* the places where a request is suspended (await) or not running
AwaitPcs == {"idle", "info_call", "image_call"}

\* A submit that starts the information call itself and stores its answer
research_animal_eager(S, client_ip, animal, session_id) ==
    LET r == check_rate_limit(S, client_ip)
        S1 == create_session(r.st, session_id,
                 [animal |-> animal, status |-> "getting_info", info |-> None,
                  image |-> None, errors |-> <<>>, rate_limit_info |-> r.info])
    IN  cache_animal_info([S1 EXCEPT !.infoCalls[session_id] = @ + 1],
                          animal, "txt_lion", <<"l", "i", "o", "n">>)

\* A submit that drops a denied request without a session
research_animal_drop(S, client_ip, animal, session_id) ==
    LET r == check_rate_limit(S, client_ip)
    IN  IF ~r.allowed
        THEN r.st
        ELSE create_session(r.st, session_id,
                 [animal |-> animal, status |-> "processing", info |-> None,
                  image |-> None, errors |-> <<>>, rate_limit_info |-> r.info])

\* A submit that refuses without saying why
research_animal_silent(S, client_ip, animal, session_id) ==
    LET r == check_rate_limit(S, client_ip)
    IN  create_session(r.st, session_id,
            [animal |-> animal,
             status |-> IF r.allowed THEN "processing" ELSE "rate_limited",
             info |-> None, image |-> None, errors |-> <<>>, rate_limit_info |-> r.info])

\* POST /research.  Returns the state it leaves.
research_animal(S, client_ip, animal, session_id) ==
    LET r == check_rate_limit(S, client_ip)
        limit_type == IF "limit_type" \in DOMAIN r.info THEN r.info.limit_type ELSE r.info.status
    IN  IF ~r.allowed
        THEN create_session(r.st, session_id,
                 [animal |-> animal, status |-> "rate_limited", info |-> None,
                  image |-> None, errors |-> <<ErrorMessage("rate_limited", limit_type)>>,
                  rate_limit_info |-> r.info])
        ELSE create_session(r.st, session_id,
                 [animal |-> animal, status |-> "processing", info |-> None,
                  image |-> None, errors |-> <<>>, rate_limit_info |-> r.info])

Loc(S, p) == S.poll[p]

\* Assignment to a key of the handler's session_data.  Under the in-memory
\* fallback the handler holds the stored dict itself, so the store changes too.
Assign(S, p, data) ==
    LET id == S.poll[p].sid
        S1 == [S EXCEPT !.poll[p].session_data = data]
    IN  IF ~UseRedis /\ id \in DOMAIN S.fallback.sess
        THEN [S1 EXCEPT !.fallback.sess[id] = data]
        ELSE S1

\* session_service.update_session(session_id, session_data)
Update(S, p) ==
    LET d == With(S.poll[p].session_data, "last_updated", now)
    IN  update_session([S EXCEPT !.poll[p].session_data = d], S.poll[p].sid, d)

Goto(S, p, pc) == [S EXCEPT !.poll[p].pc = pc]

\* What stays on record of a request once its locals are gone: the session it
\* polled, the cache result and the provider answer its run worked with, and
\* whether the run called the image provider.
Record(L) ==
    [IdlePoll EXCEPT !.sid = L.sid, !.cached_data = L.cached_data,
                     !.info_result = L.info_result, !.image_result = L.image_result,
                     !.ran_image = L.ran_image]

\* return JSONResponse(...) / raise HTTPException(...)
Respond(S, p, code, body) ==
    [S EXCEPT !.poll[p] = [Record(S.poll[p]) EXCEPT !.resp = [code |-> code, body |-> body]]]

\* return from process_animal_research_sync to get_status (line 255)
Return(S, p) ==
    [S EXCEPT !.poll[p] = [Record(S.poll[p]) EXCEPT !.pc = "status_reget"]]

\* get_status 260-265, on the session_data it holds
AfterProcessing(S, p, session_data) ==
    IF session_data.status \notin {"completed", "error"}
    THEN [S EXCEPT !.poll[p].pc = "extend", !.poll[p].session_data = session_data]
    ELSE Respond(S, p, 200, session_data)

\* A poll that runs the research whatever status it finds
step_start_always(S, p, session_id) ==
    LET session_data == get_session(S, session_id)
        S1 == [S EXCEPT !.poll[p] = [IdlePoll EXCEPT !.sid = session_id]]
    IN  IF session_data = NoRec
        THEN Respond(S1, p, 404, NoRec)
        ELSE [S1 EXCEPT !.poll[p].pc = "proc_get",
                        !.poll[p].animal = session_data.animal,
                        !.poll[p].session_data = session_data]

\* A status request that starts a session for an id it does not find
step_start_create(S, p, session_id) ==
    LET session_data == get_session(S, session_id)
        S1 == [S EXCEPT !.poll[p] = [IdlePoll EXCEPT !.sid = session_id]]
    IN  IF session_data = NoRec
        THEN Respond(create_session(S1, session_id, [status |-> "processing"]), p, 200, NoRec)
        ELSE IF session_data.status = "processing"
        THEN [S1 EXCEPT !.poll[p].pc = "proc_get",
                        !.poll[p].animal = session_data.animal,
                        !.poll[p].session_data = session_data]
        ELSE AfterProcessing(S1, p, session_data)

\* A poll that also starts the research when it finds the session getting_info
step_start_resume(S, p, session_id) ==
    LET session_data == get_session(S, session_id)
        S1 == [S EXCEPT !.poll[p] = [IdlePoll EXCEPT !.sid = session_id]]
    IN  IF session_data = NoRec
        THEN Respond(S1, p, 404, NoRec)
        ELSE IF session_data.status \in {"processing", "getting_info"}
        THEN [S1 EXCEPT !.poll[p].pc = "proc_get",
                        !.poll[p].animal = session_data.animal,
                        !.poll[p].session_data = session_data]
        ELSE AfterProcessing(S1, p, session_data)

\* A poll that does not start the research while another request is at work
\* on the session
step_start_locked(S, p, session_id) ==
    LET session_data == get_session(S, session_id)
        S1 == [S EXCEPT !.poll[p] = [IdlePoll EXCEPT !.sid = session_id]]
        taken == \E q \in Polls \ {p} : S.poll[q].sid = session_id /\ S.poll[q].pc # "idle"
    IN  IF session_data = NoRec
        THEN Respond(S1, p, 404, NoRec)
        ELSE IF session_data.status = "processing" /\ ~taken
        THEN [S1 EXCEPT !.poll[p].pc = "proc_get",
                        !.poll[p].animal = session_data.animal,
                        !.poll[p].session_data = session_data]
        ELSE AfterProcessing(S1, p, session_data)

\* get_status 219-244
step_start(S, p, session_id) ==
    LET session_data == get_session(S, session_id)
        S1 == [S EXCEPT !.poll[p] = [IdlePoll EXCEPT !.sid = session_id]]
    IN  IF session_data = NoRec
        THEN Respond(S1, p, 404, NoRec)
        ELSE IF session_data.status = "processing"
        THEN [S1 EXCEPT !.poll[p].pc = "proc_get",
                        !.poll[p].animal = session_data.animal,
                        !.poll[p].session_data = session_data]
        ELSE AfterProcessing(S1, p, session_data)

\* process_animal_research_sync 271-274
step_proc_get(S, p) ==
    LET session_data == get_session(S, Loc(S, p).sid)
    IN  IF session_data = NoRec
        THEN Return(S, p)
        ELSE [S EXCEPT !.poll[p].pc = "cache_get_info",
                       !.poll[p].session_data = session_data]

\* 278, first lookup of get_complete_cached_animal (cache_service.py 153)
step_cache_get_info(S, p) ==
    LET r == get_cached_animal_info(S, Loc(S, p).animal)
    IN  [r.st EXCEPT !.poll[p].pc = "cache_get_image", !.poll[p].info_cache = r.val]

\* 278, second lookup (cache_service.py 154-173), then web_app.py 280-288
step_cache_get_image(S, p) ==
    LET r == get_cached_animal_image(S, Loc(S, p).animal)
        cached_data == CompleteOf(Loc(S, p).info_cache, r.val)
        S1 == [r.st EXCEPT !.poll[p].cached_data = cached_data]
        sd == Loc(S, p).session_data
    IN  IF cached_data = NoRec
        THEN Goto(S1, p, "miss_update")
        ELSE IF "image" \in DOMAIN cached_data
        THEN Goto(Assign(S1, p,
                    With(With([sd EXCEPT !.status = "completed",
                                         !.info = cached_data.info,
                                         !.image = cached_data.image],
                              "from_cache", TRUE),
                         "cached_at", cached_data.cached_at)),
                  p, "hit_update")
        ELSE \* cached_data['image'] raises KeyError after 283-284 took effect
             Goto([Assign(S1, p, [sd EXCEPT !.status = "completed",
                                            !.info = cached_data.info])
                     EXCEPT !.poll[p].exc = "KeyError"],
                  p, "exc_get")

\* A cache hit that still goes on to the information call
step_hit_update_refetch(S, p) ==
    Goto(track_animal_search(Update(S, p), Loc(S, p).animal), p, "info_call")

\* 290-294
step_hit_update(S, p) ==
    Return(track_animal_search(Update(S, p), Loc(S, p).animal), p)

\* 297-301
step_miss_update(S, p) ==
    LET S1 == track_animal_search(S, Loc(S, p).animal)
        S2 == Assign(S1, p, [Loc(S, p).session_data EXCEPT !.status = "getting_info"])
    IN  Goto(Update(S2, p), p, "info_call")

\* 304: the awaited call returns info_result
step_info_return(S, p, info_result) ==
    [S EXCEPT !.poll[p].pc = "info_reget",
              !.poll[p].info_result = info_result,
              !.infoCalls[S.poll[p].sid] = @ + 1]

\* A run that calls the information provider again when it fails
step_info_reget_retry(S, p) ==
    IF ~Loc(S, p).info_result.success /\ S.infoCalls[Loc(S, p).sid] < 2
    THEN Goto(S, p, "info_call")
    ELSE Return(S, p)

\* 307-372
step_info_reget(S, p) ==
    LET L == Loc(S, p)
        session_data == get_session(S, L.sid)
        S1 == [S EXCEPT !.poll[p].session_data = session_data]
        v == is_valid_animal(L.info_result.content)
        name == extract_english_name(L.info_result.content)
    IN  IF session_data = NoRec
        THEN Return(S, p)
        ELSE IF ~L.info_result.success
        THEN Goto(Assign(S1, p,
                    [session_data EXCEPT
                        !.errors = Append(@, ErrorMessage("Info error", L.info_result.error)),
                        !.status = "error"]),
                  p, "err_update")
        ELSE IF ~v.is_valid
        THEN Goto(Assign(S1, p,
                    With(With([session_data EXCEPT
                                  !.status = "invalid_animal",
                                  !.errors = <<InvalidMessage(L.animal, v)>>],
                              "invalid_reason", v.reason),
                         "suggestions", v.suggestions)),
                  p, "invalid_update")
        ELSE Goto([Assign(S1, p, [session_data EXCEPT
                                     !.info = L.info_result.content,
                                     !.status = "generating_image"])
                     EXCEPT !.poll[p].english_name =
                                IF name = <<>> THEN L.animal ELSE name],
                  p, "genimg_update")

\* A run that returns without writing the error record it has built
step_err_update_skip(S, p) == Return(S, p)

\* 314-315 and 409-410
step_err_update(S, p) == Return(Update(S, p), p)

\* A run that caches the information it got before it reports the query as
\* not an animal
step_invalid_update_cached(S, p) ==
    Return(Update(cache_animal_info(S, Loc(S, p).animal, Loc(S, p).info_result.content, <<>>),
                  p), p)

\* 346-357
step_invalid_update(S, p) == Return(Update(S, p), p)

\* 373
step_genimg_update(S, p) == Goto(Update(S, p), p, "image_call")

\* 379-399: the awaited call returns, or its deadline passes: image_result
step_image_return(S, p, image_result) ==
    [S EXCEPT !.poll[p].pc = "image_reget",
              !.poll[p].image_result = image_result,
              !.poll[p].ran_image = TRUE,
              !.imageCalls[S.poll[p].sid] = @ + 1]

\* A run that gives up without a word when the image call fails
step_image_reget_stuck(S, p) ==
    LET L == Loc(S, p)
        session_data == get_session(S, L.sid)
        S1 == [S EXCEPT !.poll[p].session_data = session_data]
    IN  IF session_data = NoRec \/ ~L.image_result.success
        THEN Return(S, p)
        ELSE Goto(Assign(S1, p, [session_data EXCEPT !.image = L.image_result.image_data_url]),
                  p, "cache_put_info")

\* 402-412
step_image_reget(S, p) ==
    LET L == Loc(S, p)
        session_data == get_session(S, L.sid)
        S1 == [S EXCEPT !.poll[p].session_data = session_data]
    IN  IF session_data = NoRec
        THEN Return(S, p)
        ELSE IF ~L.image_result.success
        THEN Goto(Assign(S1, p,
                    [session_data EXCEPT
                        !.errors = Append(@, ErrorMessage("Image error", L.image_result.error)),
                        !.status = "error"]),
                  p, "err_update")
        ELSE Goto(Assign(S1, p, [session_data EXCEPT !.image = L.image_result.image_data_url]),
                  p, "cache_put_info")

\* 418-422
step_cache_put_info(S, p) ==
    LET L == Loc(S, p)
    IN  Goto(cache_animal_info(S, L.animal, L.session_data.info, L.english_name),
             p, "cache_put_image")

\* 425-429
step_cache_put_image(S, p) ==
    LET L == Loc(S, p)
    IN  Goto(cache_animal_image(S, L.animal, L.session_data.image, L.english_name),
             p, "done_update")

\* 434-438
step_done_update(S, p) ==
    LET S1 == Assign(S, p, With([Loc(S, p).session_data EXCEPT !.status = "completed"],
                                "cached", TRUE))
    IN  Return(Update(S1, p), p)

\* 440-446
step_exc_get(S, p) ==
    LET L == Loc(S, p)
        session_data == get_session(S, L.sid)
    IN  IF session_data = NoRec
        THEN Return(S, p)
        ELSE Goto(Assign([S EXCEPT !.poll[p].session_data = session_data], p,
                    [session_data EXCEPT
                        !.status = "error",
                        !.errors = Append(@, ErrorMessage("Unexpected error", L.exc))]),
                  p, "exc_update")

\* 447
step_exc_update(S, p) == Return(Update(S, p), p)

\* get_status 255-265
step_status_reget(S, p) ==
    LET session_data == get_session(S, Loc(S, p).sid)
    IN  IF session_data = NoRec
        THEN Respond(S, p, 500, NoRec)
        ELSE AfterProcessing(S, p, session_data)

\* get_status 262-265
step_extend(S, p) ==
    Respond(extend_session(S, Loc(S, p).sid), p, 200, Loc(S, p).session_data)

\* The step of poll p that needs no input, by its position
Internal(S, p) ==
    LET pc == S.poll[p].pc
    IN  CASE pc = "proc_get" -> step_proc_get(S, p)
          [] pc = "cache_get_info" -> step_cache_get_info(S, p)
          [] pc = "cache_get_image" -> step_cache_get_image(S, p)
          [] pc = "hit_update" -> step_hit_update(S, p)
          [] pc = "miss_update" -> step_miss_update(S, p)
          [] pc = "info_reget" -> step_info_reget(S, p)
          [] pc = "err_update" -> step_err_update(S, p)
          [] pc = "invalid_update" -> step_invalid_update(S, p)
          [] pc = "genimg_update" -> step_genimg_update(S, p)
          [] pc = "image_reget" -> step_image_reget(S, p)
          [] pc = "cache_put_info" -> step_cache_put_info(S, p)
          [] pc = "cache_put_image" -> step_cache_put_image(S, p)
          [] pc = "done_update" -> step_done_update(S, p)
          [] pc = "exc_get" -> step_exc_get(S, p)
          [] pc = "exc_update" -> step_exc_update(S, p)
          [] pc = "status_reget" -> step_status_reget(S, p)
          [] pc = "extend" -> step_extend(S, p)
          [] OTHER -> S

\* One process (in-memory fallback): a request runs on to its next await.
RECURSIVE RunToAwait(_, _)
RunToAwait(S, p) ==
    IF S.poll[p].pc \in AwaitPcs THEN S ELSE RunToAwait(Internal(S, p), p)

Settle(S, p) == IF UseRedis THEN S ELSE RunToAwait(S, p)

---------------------------------------------------------------------------
(* Actions *)

Sessions == 1..MaxSessions

Cur ==
    [redis |-> redis, fallback |-> fallback, poll |-> poll,
     infoCalls |-> infoCalls, imageCalls |-> imageCalls]

Commit(S) ==
    /\ redis' = S.redis
    /\ fallback' = S.fallback
    /\ poll' = S.poll
    /\ infoCalls' = S.infoCalls
    /\ imageCalls' = S.imageCalls

EmptyState ==
    [redis |-> EmptyRedis, fallback |-> EmptyFallback,
     poll |-> [p \in Polls |-> IdlePoll],
     infoCalls |-> [i \in Sessions |-> 0], imageCalls |-> [i \in Sessions |-> 0]]

\* Requests the metered client has already made this second when the model
\* starts, and the counters they left (check_rate_limit, n times)
PriorRequests == {0, MINUTE_LIMIT}

PriorCounters(S, ip, n) ==
    IF n = 0 THEN S
    ELSE IF UseRedis
    THEN [S EXCEPT !.redis.ctr =
            [k \in {<<ip, "minute">>, <<ip, "hour">>, <<ip, "day">>} |->
                [v |-> n,
                 exp |-> now + (CASE k[2] = "minute" -> MINUTE_TTL
                                  [] k[2] = "hour" -> HOUR_TTL
                                  [] OTHER -> DAY_TTL)]]]
    ELSE [S EXCEPT !.fallback.ctr =
            [k \in {<<ip, "minute", now \div MINUTE_TTL>>, <<ip, "hour", now \div HOUR_TTL>>,
                    <<ip, "day", now \div DAY_TTL>>} |-> n]]

\* What the cache holds when the model starts: nothing, or the two entries an
\* earlier research of "leo" stored this second (web_app.py 418-429)
PriorCache(S, filled) ==
    IF ~filled THEN S
    ELSE cache_animal_image(
             cache_animal_info(S, <<"l", "e", "o">>, "txt_lion", <<"l", "i", "o", "n">>),
             <<"l", "e", "o">>, "img_1", <<"l", "i", "o", "n">>)

Init ==
    /\ backend \in {"redis", "memory"}
    /\ now = T0
    /\ \E n \in PriorRequests, filled \in BOOLEAN :
         LET S == PriorCache(PriorCounters(EmptyState, "10.0.0.7", n), filled)
         IN  /\ redis = S.redis
             /\ fallback = S.fallback
    /\ nextId = 0
    /\ poll = [p \in Polls |-> IdlePoll]
    /\ infoCalls = [i \in Sessions |-> 0]
    /\ imageCalls = [i \in Sessions |-> 0]
    /\ overlap = [i \in Sessions |-> FALSE]
    /\ rlLog = <<>>
    /\ rlLast = NoRec
    /\ calls = <<>>

\* POST /research
Submit(client_ip, animal) ==
    /\ nextId < MaxSessions
    /\ Strip(animal) # <<>>
    /\ Commit(research_animal(Cur, client_ip, animal, nextId + 1))
    /\ nextId' = nextId + 1
    /\ UNCHANGED <<backend, now, overlap, rlLog, rlLast, calls>>

\* GET /status/{session_id} arrives
PollStart(p, session_id) ==
    /\ poll[p].pc = "idle"
    /\ Commit(Settle(step_start(Cur, p, session_id), p))
    /\ overlap' = [overlap EXCEPT ![session_id] =
                     @ \/ \E q \in Polls \ {p} : poll[q].pc # "idle" /\ poll[q].sid = session_id]
    /\ UNCHANGED <<backend, now, nextId, rlLog, rlLast, calls>>

\* The information provider answers
InfoReturn(p, info_result) ==
    /\ poll[p].pc = "info_call"
    /\ Commit(Settle(step_info_return(Cur, p, info_result), p))
    /\ UNCHANGED <<backend, now, nextId, overlap, rlLog, rlLast, calls>>

\* The image provider answers, or the deadline passes
ImageReturn(p, image_result) ==
    /\ poll[p].pc = "image_call"
    /\ Commit(Settle(step_image_return(Cur, p, image_result), p))
    /\ UNCHANGED <<backend, now, nextId, overlap, rlLog, rlLast, calls>>

\* One store round trip of a request in flight (several instances, one Redis)
At(p, pc, S) ==
    /\ poll[p].pc = pc
    /\ Commit(S)
    /\ UNCHANGED <<backend, now, nextId, overlap, rlLog, rlLast, calls>>

ProcGet(p) == At(p, "proc_get", step_proc_get(Cur, p))
CacheGetInfo(p) == At(p, "cache_get_info", step_cache_get_info(Cur, p))
CacheGetImage(p) == At(p, "cache_get_image", step_cache_get_image(Cur, p))
HitUpdate(p) == At(p, "hit_update", step_hit_update(Cur, p))
MissUpdate(p) == At(p, "miss_update", step_miss_update(Cur, p))
InfoReget(p) == At(p, "info_reget", step_info_reget(Cur, p))
ErrUpdate(p) == At(p, "err_update", step_err_update(Cur, p))
InvalidUpdate(p) == At(p, "invalid_update", step_invalid_update(Cur, p))
GenimgUpdate(p) == At(p, "genimg_update", step_genimg_update(Cur, p))
ImageReget(p) == At(p, "image_reget", step_image_reget(Cur, p))
CachePutInfo(p) == At(p, "cache_put_info", step_cache_put_info(Cur, p))
CachePutImage(p) == At(p, "cache_put_image", step_cache_put_image(Cur, p))
DoneUpdate(p) == At(p, "done_update", step_done_update(Cur, p))
ExcGet(p) == At(p, "exc_get", step_exc_get(Cur, p))
ExcUpdate(p) == At(p, "exc_update", step_exc_update(Cur, p))
StatusReget(p) == At(p, "status_reget", step_status_reget(Cur, p))
Extend(p) == At(p, "extend", step_extend(Cur, p))

Next ==
    \/ \E c \in Clients, a \in Queries : Submit(c, a)
    \/ \E p \in Polls, i \in Sessions : PollStart(p, i)
    \/ \E p \in Polls, r \in InfoResults : InfoReturn(p, r)
    \/ \E p \in Polls, r \in ImageResults : ImageReturn(p, r)
    \/ \E p \in Polls : ProcGet(p)
    \/ \E p \in Polls : CacheGetInfo(p)
    \/ \E p \in Polls : CacheGetImage(p)
    \/ \E p \in Polls : HitUpdate(p)
    \/ \E p \in Polls : MissUpdate(p)
    \/ \E p \in Polls : InfoReget(p)
    \/ \E p \in Polls : ErrUpdate(p)
    \/ \E p \in Polls : InvalidUpdate(p)
    \/ \E p \in Polls : GenimgUpdate(p)
    \/ \E p \in Polls : ImageReget(p)
    \/ \E p \in Polls : CachePutInfo(p)
    \/ \E p \in Polls : CachePutImage(p)
    \/ \E p \in Polls : DoneUpdate(p)
    \/ \E p \in Polls : ExcGet(p)
    \/ \E p \in Polls : ExcUpdate(p)
    \/ \E p \in Polls : StatusReget(p)
    \/ \E p \in Polls : Extend(p)

Spec == Init /\ [][Next]_vars

\* The steps of the request p once it has arrived: a provider's answer (or the
\* deadline of the image call), a round trip to the store coming back
RunStep(p) ==
    \/ \E r \in InfoResults : InfoReturn(p, r)
    \/ \E r \in ImageResults : ImageReturn(p, r)
    \/ ProcGet(p) \/ CacheGetInfo(p) \/ CacheGetImage(p) \/ HitUpdate(p) \/ MissUpdate(p)
    \/ InfoReget(p) \/ ErrUpdate(p) \/ InvalidUpdate(p) \/ GenimgUpdate(p)
    \/ ImageReget(p) \/ CachePutInfo(p) \/ CachePutImage(p) \/ DoneUpdate(p)
    \/ ExcGet(p) \/ ExcUpdate(p) \/ StatusReget(p) \/ Extend(p)

\* Every request that has arrived goes on: the event loop resumes a handler
\* whose awaited call has returned, each provider call returns or times out
\* and each round trip to the store comes back
\* A step of the request p that is under way
Moves(p) == poll[p].pc # "idle" /\ poll[p].pc' # poll[p].pc

\* The event loop keeps running every request that is under way and every
\* provider call returns or times out: WF_vars(RunStep(p)), written with what
\* its two parts are here.  RunStep(p) has a step at every position but idle,
\* and the steps that change the position of a request under way are its own.
Scheduled(p) == ([]<>(poll[p].pc = "idle")) \/ ([]<><<Moves(p)>>_vars)

FairSpec == Spec /\ \A p \in Polls : Scheduled(p)

---------------------------------------------------------------------------
(* The rate limiter on its own: checks of two clients, the clock, and the  *)
(* operator's blacklisting.                                                *)

Metered == "10.0.0.7"

\* Seconds after T0 at which the clock is read
RLOffsets == {59, 60, 90, 119, 120}

InitRL ==
    /\ backend \in {"redis", "memory"}
    /\ now = T0 + 59
    /\ redis = EmptyRedis
    /\ fallback = EmptyFallback
    /\ nextId = 0
    /\ poll = [p \in Polls |-> IdlePoll]
    /\ infoCalls = [i \in Sessions |-> 0]
    /\ imageCalls = [i \in Sessions |-> 0]
    /\ overlap = [i \in Sessions |-> FALSE]
    /\ rlLog = <<>>
    /\ rlLast = NoRec
    /\ calls = <<>>

\* rate_limiter.check_rate_limit(request)
RateLimitCheck(client_ip) ==
    /\ Len(rlLog) < MaxChecks
    /\ LET r == check_rate_limit(Cur, client_ip)
       IN  /\ Commit(r.st)
           /\ rlLast' = [ip |-> client_ip, allowed |-> r.allowed, info |-> r.info]
           /\ rlLog' = IF client_ip = Metered
                       THEN Append(rlLog, [t |-> now, allowed |-> r.allowed,
                                           status |-> r.info.status,
                                           limit_type |-> IF "limit_type" \in DOMAIN r.info
                                                          THEN r.info.limit_type ELSE None])
                       ELSE rlLog
    /\ UNCHANGED <<backend, now, nextId, overlap, calls>>

\* rate_limiter._add_to_blacklist(ip), by an operator
AddToBlacklist(ip) ==
    /\ ~_is_blacklisted(Cur, ip)
    /\ Commit(_add_to_blacklist(Cur, ip))
    /\ UNCHANGED <<backend, now, nextId, overlap, rlLog, rlLast, calls>>

\* Time passes; Redis drops the keys whose time to live has run out
TickRL(t) ==
    /\ t > now
    /\ now' = t
    /\ redis' = Expire(redis, t)
    /\ UNCHANGED <<backend, fallback, nextId, poll, infoCalls, imageCalls, overlap,
                   rlLog, rlLast, calls>>

NextRL ==
    \/ \E c \in Clients : RateLimitCheck(c)
    \/ \E c \in Clients : AddToBlacklist(c)
    \/ \E d \in RLOffsets : TickRL(T0 + d)

SpecRL == InitRL /\ [][NextRL]_vars

---------------------------------------------------------------------------
(* Requests arriving while sessions leave the store: a session is deleted, *)
(* or the clock passes the time to live of the sessions kept in Redis; and *)
(* while the operator blacklists clients.                                  *)
(* The providers do not answer here and no request gets past its first     *)
(* await or round trip.                                                    *)

\* session_service.delete_session(session_id) on a stored session
DeleteStored(session_id) ==
    /\ get_session(Cur, session_id) # NoRec
    /\ Commit(delete_session(Cur, session_id).st)
    /\ UNCHANGED <<backend, now, nextId, overlap, rlLog, rlLast, calls>>

NextLife ==
    \/ \E c \in Clients, a \in Queries : Submit(c, a)
    \/ \E p \in Polls, i \in Sessions : PollStart(p, i)
    \/ \E i \in Sessions : DeleteStored(i)
    \/ \E c \in Clients : AddToBlacklist(c)
    \/ \E d \in {SESSION_TTL - 1, SESSION_TTL} : TickRL(T0 + d)

SpecLife == Init /\ [][NextLife]_vars

\* Polls of a session that is no longer processing while the clock moves:
\* get_status 260-265 answers, after extend_session when it extends
NextKeep ==
    \/ \E c \in Clients, a \in Queries : Submit(c, a)
    \/ \E p \in Polls, i \in Sessions : PollStart(p, i)
    \/ \E p \in Polls : Extend(p)
    \/ \E d \in {1800, SESSION_TTL, 5400} : TickRL(T0 + d)

SpecKeep == Init /\ [][NextKeep]_vars

---------------------------------------------------------------------------
(* The rate limiter with a Redis that may fail: each check names the round *)
(* trips that raise during it.                                             *)

\* The sets of failing round trips tried: none, one, two, or all of them
FaultSets == {F \in SUBSET StoreOps : Cardinality(F) <= 2} \cup {StoreOps}

InitRLX ==
    /\ backend \in {"redis", "memory"}
    /\ now = T0
    /\ \E n \in PriorRequests :
         LET S == PriorCounters(EmptyState, Metered, n)
         IN  redis = S.redis /\ fallback = S.fallback
    /\ nextId = 0
    /\ poll = [p \in Polls |-> IdlePoll]
    /\ infoCalls = [i \in Sessions |-> 0]
    /\ imageCalls = [i \in Sessions |-> 0]
    /\ overlap = [i \in Sessions |-> FALSE]
    /\ rlLog = <<>>
    /\ rlLast = NoRec
    /\ calls = <<>>

\* rate_limiter.check_rate_limit(request) while the round trips of F raise
RateLimitCheckX(client_ip, F) ==
    /\ Len(rlLog) < MaxFaultChecks
    /\ UseRedis \/ F = {}
    /\ LET r == check_rate_limit_x(Cur, client_ip, F)
       IN  /\ Commit(r.st)
           /\ rlLast' = [ip |-> client_ip, allowed |-> r.allowed, info |-> r.info, faults |-> F]
           /\ rlLog' = Append(rlLog, [t |-> now, allowed |-> r.allowed,
                                      status |-> r.info.status,
                                      limit_type |-> IF "limit_type" \in DOMAIN r.info
                                                     THEN r.info.limit_type ELSE None])
    /\ UNCHANGED <<backend, now, nextId, overlap, calls>>

NextRLX ==
    \/ \E c \in Clients, F \in FaultSets : RateLimitCheckX(c, F)
    \/ \E c \in Clients : AddToBlacklist(c)

SpecRLX == InitRLX /\ [][NextRLX]_vars

----------------------------------------------------------------------------
(* The rate limiter from any standing of a client's three counters: below, *)
(* one short of, or at the limit of each window.                           *)

\* The counters of ip hold n[w] for window w (no key for a count of 0), as
\* _increment_counter leaves them
PriorCounts(S, ip, n) ==
    LET Kept == {w \in Windows : n[w] > 0}
        TtlOfWindow(w) == CASE w = "minute" -> MINUTE_TTL
                            [] w = "hour" -> HOUR_TTL
                            [] OTHER -> DAY_TTL
    IN  IF UseRedis
        THEN [S EXCEPT !.redis.ctr =
                [k \in {<<ip, w>> : w \in Kept} |->
                    [v |-> n[k[2]], exp |-> now + TtlOfWindow(k[2])]]]
        ELSE [S EXCEPT !.fallback.ctr =
                [k \in {<<ip, w, now \div TtlOfWindow(w)>> : w \in Kept} |-> n[k[2]]]]

PriorLevels ==
    [minute : {0, MINUTE_LIMIT - 1, MINUTE_LIMIT},
     hour : {0, HOUR_LIMIT - 1, HOUR_LIMIT},
     day : {0, DAY_LIMIT - 1, DAY_LIMIT}]

InitRLW ==
    /\ backend \in {"redis", "memory"}
    /\ now = T0
    /\ \E n \in PriorLevels :
         LET S == PriorCounts(EmptyState, Metered, n)
         IN  redis = S.redis /\ fallback = S.fallback
    /\ nextId = 0
    /\ poll = [p \in Polls |-> IdlePoll]
    /\ infoCalls = [i \in Sessions |-> 0]
    /\ imageCalls = [i \in Sessions |-> 0]
    /\ overlap = [i \in Sessions |-> FALSE]
    /\ rlLog = <<>>
    /\ rlLast = NoRec
    /\ calls = <<>>

NextRLW ==
    \/ \E c \in Clients : RateLimitCheck(c)
    \/ \E c \in Clients : AddToBlacklist(c)
    \/ TickRL(T0 + MINUTE_TTL)

SpecRLW == InitRLW /\ [][NextRLW]_vars

----------------------------------------------------------------------------
(* Rate-limit checks made at the same time by several instances that share *)
(* the Redis store: every Redis round trip of a check is a step, and the    *)
(* round trips of the checks under way interleave.  The clock stands still, *)
(* so all the checks fall in one minute, hour and day window.               *)

WindowSeq == <<"minute", "hour", "day">>

\* A check under way: its position, the second it arrived, the window it is
\* at, the counts it has read (163-166), the value _increment_counter got
\* (62) and the new values it has returned (206-208)
CheckReq(client_ip) ==
    [pc |-> "rl_blacklist", ip |-> client_ip, at |-> now, w |-> 1, counts |-> <<>>,
     current |-> NoRec, new |-> <<>>]

CurRL == [ctr |-> redis.ctr, poll |-> poll, rlLog |-> rlLog, rlLast |-> rlLast]

CommitRL(T) ==
    /\ redis' = [redis EXCEPT !.ctr = T.ctr]
    /\ poll' = T.poll
    /\ rlLog' = T.rlLog
    /\ rlLast' = T.rlLast
    /\ UNCHANGED <<backend, now, fallback, nextId, infoCalls, imageCalls, overlap, calls>>

\* check_rate_limit returns (allowed, info) to request p
Answer(T, p, allowed, info) ==
    [T EXCEPT !.poll[p] = IdlePoll,
              !.rlLast = [ip |-> T.poll[p].ip, allowed |-> allowed, info |-> info],
              !.rlLog = Append(@, [t |-> now, at |-> T.poll[p].at, allowed |-> allowed,
                                   status |-> info.status,
                                   limit_type |-> IF "limit_type" \in DOMAIN info
                                                  THEN info.limit_type ELSE None])]

\* The checks made one after the other before the instances race: n allowed
\* checks at T0 and the counters they left
PriorChecks == {0, MINUTE_LIMIT - 1}

PriorLog(n) ==
    [i \in 1..n |-> [t |-> T0, at |-> T0, allowed |-> TRUE, status |-> "allowed",
                     limit_type |-> None]]

InitRLC ==
    /\ backend = "redis"
    /\ now = T0 + 1
    /\ \E n \in PriorChecks :
         /\ redis = PriorCounters(EmptyState, Metered, n).redis
         /\ rlLog = PriorLog(n)
    /\ fallback = EmptyFallback
    /\ nextId = 0
    /\ poll = [p \in Polls |-> IdlePoll]
    /\ infoCalls = [i \in Sessions |-> 0]
    /\ imageCalls = [i \in Sessions |-> 0]
    /\ overlap = [i \in Sessions |-> FALSE]
    /\ rlLast = NoRec
    /\ calls = <<>>

UnderWay == {p \in Polls : poll[p].pc # "idle"}

\* The checks answered since the instances began to race
Racing == {i \in 1..Len(rlLog) : rlLog[i].t = now}

\* 136-146: a request arrives at an instance; the allow-list needs no round trip
CheckArrive(p, client_ip) ==
    /\ poll[p].pc = "idle"
    /\ Cardinality(Racing) + Cardinality(UnderWay) < MaxRacingChecks
    /\ IF client_ip \in WHITELIST_IPS
       THEN CommitRL([CurRL EXCEPT !.rlLast = [ip |-> client_ip, allowed |-> TRUE,
                                               info |-> [status |-> "whitelisted",
                                                         ip |-> client_ip]]])
       ELSE CommitRL([CurRL EXCEPT !.poll[p] = CheckReq(client_ip)])

\* 149-156 with _is_blacklisted 111-114: redis.get(blacklist_key)
CheckBlacklist(p) ==
    /\ poll[p].pc = "rl_blacklist"
    /\ IF poll[p].ip \in DOMAIN redis.bl
       THEN CommitRL(Answer(CurRL, p, FALSE,
                [status |-> "blacklisted", retry_after |-> BLACKLIST_TTL, ip |-> poll[p].ip]))
       ELSE CommitRL([CurRL EXCEPT !.poll[p].pc = "rl_get"])

\* 168-202 on the three counts read: the denial, or NoRec when none is at
\* its limit
Verdict(ip, counts) ==
    IF counts[1] >= MINUTE_LIMIT
    THEN [status |-> "rate_limited", limit_type |-> "minute", retry_after |-> 60,
          current_count |-> counts[1], limit |-> MINUTE_LIMIT, ip |-> ip]
    ELSE IF counts[2] >= HOUR_LIMIT
    THEN [status |-> "rate_limited", limit_type |-> "hour", retry_after |-> 3600,
          current_count |-> counts[2], limit |-> HOUR_LIMIT, ip |-> ip]
    ELSE IF counts[3] >= DAY_LIMIT
    THEN [status |-> "rate_limited", limit_type |-> "day", retry_after |-> 86400,
          current_count |-> counts[3], limit |-> DAY_LIMIT, ip |-> ip]
    ELSE NoRec

\* 164-166 with _get_counter 95-97: redis.get(key) of the window the check is
\* at; after the third, 168-202
CheckRead(p) ==
    /\ poll[p].pc = "rl_get"
    /\ LET k == <<poll[p].ip, WindowSeq[poll[p].w]>>
           counts == Append(poll[p].counts, IF k \in DOMAIN redis.ctr THEN redis.ctr[k].v ELSE 0)
       IN  IF poll[p].w < 3
           THEN CommitRL([CurRL EXCEPT !.poll[p].counts = counts, !.poll[p].w = @ + 1])
           ELSE IF Verdict(poll[p].ip, counts) # NoRec
           THEN CommitRL(Answer(CurRL, p, FALSE, Verdict(poll[p].ip, counts)))
           ELSE CommitRL([CurRL EXCEPT !.poll[p].counts = counts, !.poll[p].w = 1,
                                       !.poll[p].pc = "rl_inc_get"])

\* 206-224: after _increment_counter returned for the window the check is at
Incremented(T, p, value) ==
    LET new == Append(T.poll[p].new, value)
    IN  IF T.poll[p].w < 3
        THEN [T EXCEPT !.poll[p].new = new, !.poll[p].w = @ + 1, !.poll[p].pc = "rl_inc_get"]
        ELSE Answer(T, p, TRUE,
                    [status |-> "allowed", ip |-> T.poll[p].ip,
                     limits |-> [minute |-> new[1], hour |-> new[2], day |-> new[3]]])

\* _increment_counter 62: current = redis.get(key)
IncrementGet(p) ==
    /\ poll[p].pc = "rl_inc_get"
    /\ LET k == <<poll[p].ip, WindowSeq[poll[p].w]>>
       IN  CommitRL([CurRL EXCEPT
                !.poll[p].current = IF k \in DOMAIN redis.ctr
                                    THEN [v |-> redis.ctr[k].v] ELSE NoRec,
                !.poll[p].pc = "rl_inc_set"])

\* The expiry of a key that has no time to live
NoExpiry == T0 + 100 * DAY_TTL

\* _increment_counter 63-69: setex(key, ttl, "1") when the get found nothing,
\* else incr(key), which keeps the key's time to live and makes a key that
\* is gone anew, at 1 and with no time to live
IncrementSet(p) ==
    /\ poll[p].pc = "rl_inc_set"
    /\ LET w == poll[p].w
           k == <<poll[p].ip, WindowSeq[w]>>
           first == [v |-> 1, exp |-> now + WindowTtls[w]]
       IN  IF poll[p].current = NoRec
           THEN CommitRL(Incremented([CurRL EXCEPT !.ctr = Put(@, k, first)], p, 1))
           ELSE IF k \in DOMAIN redis.ctr
           THEN CommitRL([CurRL EXCEPT !.ctr[k].v = @ + 1,
                                       !.poll[p].current = [v |-> redis.ctr[k].v + 1],
                                       !.poll[p].pc = "rl_inc_expire"])
           ELSE CommitRL([CurRL EXCEPT !.ctr = Put(@, k, [v |-> 1, exp |-> NoExpiry]),
                                       !.poll[p].current = [v |-> 1],
                                       !.poll[p].pc = "rl_inc_expire"])

\* _increment_counter 70-73: expire(key, ttl), return new_value
IncrementExpire(p) ==
    /\ poll[p].pc = "rl_inc_expire"
    /\ LET w == poll[p].w
           k == <<poll[p].ip, WindowSeq[w]>>
       IN  CommitRL(Incremented(
               [CurRL EXCEPT !.ctr = IF k \in DOMAIN @
                                     THEN [@ EXCEPT ![k].exp = now + WindowTtls[w]] ELSE @],
               p, poll[p].current.v))

NextRLC ==
    \/ \E p \in Polls, c \in Clients : CheckArrive(p, c)
    \/ \E p \in Polls : CheckBlacklist(p)
    \/ \E p \in Polls : CheckRead(p)
    \/ \E p \in Polls : IncrementGet(p)
    \/ \E p \in Polls : IncrementSet(p)
    \/ \E p \in Polls : IncrementExpire(p)
    \/ \E c \in Clients : AddToBlacklist(c)

SpecRLC == InitRLC /\ [][NextRLC]_vars

----------------------------------------------------------------------------
(* The same checks while the clock moves: seconds pass between the round    *)
(* trips of a check, and a minute passes after the checks have been         *)
(* answered.  The checks are those of one client, which has made           *)
(* MINUTE_LIMIT - 1 or no checks at T0.                                     *)

\* Seconds after T0 at which the clock is read
TimedOffsets == {2, 3, 62}

\* The checks that arrived since the clock began to move
Timed == {i \in 1..Len(rlLog) : rlLog[i].at > T0}

TimedArrive(p, client_ip) ==
    /\ Cardinality(Timed) + Cardinality(UnderWay) < MaxTimedChecks
    /\ CheckArrive(p, client_ip)

NextRLT ==
    \/ \E p \in Polls : TimedArrive(p, Metered)
    \/ \E p \in Polls : CheckBlacklist(p)
    \/ \E p \in Polls : CheckRead(p)
    \/ \E p \in Polls : IncrementGet(p)
    \/ \E p \in Polls : IncrementSet(p)
    \/ \E p \in Polls : IncrementExpire(p)
    \/ \E d \in TimedOffsets : TickRL(T0 + d)

SpecRLT == InitRLC /\ [][NextRLT]_vars

----------------------------------------------------------------------------
(* The blacklist over time: clients are blacklisted, checked, and the clock *)
(* passes the time to live of the entries.  Each blacklisting is logged     *)
(* with the time it was made.                                               *)

\* Seconds after T0 at which the clock is read: half, one second short of,
\* exactly and one and a half times BLACKLIST_TTL after the first reading
BLOffsets == {59 + 1800, 59 + BLACKLIST_TTL - 1, 59 + BLACKLIST_TTL, 59 + 5400}

\* _add_to_blacklist(ip) for a client that is not blacklisted
Blacklist(ip) ==
    /\ ~_is_blacklisted(Cur, ip)
    /\ Commit(_add_to_blacklist(Cur, ip))
    /\ calls' = Append(calls, [op |-> "blacklist", id |-> ip, t |-> now,
                               data |-> NoRec, ret |-> None])
    /\ UNCHANGED <<backend, now, nextId, overlap, rlLog, rlLast>>

NextBL ==
    \/ \E c \in Clients : RateLimitCheck(c)
    \/ \E c \in Clients : Blacklist(c)
    \/ \E d \in BLOffsets : TickRL(T0 + d)

SpecBL == InitRL /\ [][NextBL]_vars

---------------------------------------------------------------------------
(* The session store alone: the calls of SessionService in any order, each *)
(* logged with the time it was made and what it returned.                  *)

StoreIds == 1..MaxStoreIds

\* The dicts handed to create and update (test_sessions.py)
StoreData ==
    {[animal |-> "leon", status |-> "processing", info |-> None],
     [animal |-> "leon", status |-> "getting_info", info |-> "txt_leon"]}

\* Seconds after T0 at which the clock is read
StoreOffsets == {1800, 3600, 5400}

InitStore ==
    /\ backend \in {"redis", "memory"}
    /\ now = T0
    /\ redis = EmptyRedis
    /\ fallback = EmptyFallback
    /\ nextId = 0
    /\ poll = [p \in Polls |-> IdlePoll]
    /\ infoCalls = [i \in Sessions |-> 0]
    /\ imageCalls = [i \in Sessions |-> 0]
    /\ overlap = [i \in Sessions |-> FALSE]
    /\ rlLog = <<>>
    /\ rlLast = NoRec
    /\ calls = <<>>

Called(S, op, id, data, ret) ==
    /\ Len(calls) < MaxStoreCalls
    /\ Commit(S)
    /\ calls' = Append(calls, [op |-> op, id |-> id, t |-> now, data |-> data, ret |-> ret])
    /\ UNCHANGED <<backend, now, nextId, overlap, rlLog, rlLast>>

SessionCreate(id, data) == Called(create_session(Cur, id, data), "create", id, data, TRUE)

\* retrieved_data[k] = v for the keys of data, on the dict get_session returned
Modified(retrieved_data, data) ==
    [k \in (DOMAIN retrieved_data) \cup (DOMAIN data) |->
        IF k \in DOMAIN data THEN data[k] ELSE retrieved_data[k]]

\* update_session with a new dict, or with the dict read back and modified
SessionUpdate(id, data, reread) ==
    LET d == IF reread /\ get_session(Cur, id) # NoRec
             THEN Modified(get_session(Cur, id), data) ELSE data
    IN  Called(update_session(Cur, id, d), "update", id, d, TRUE)

SessionDelete(id) ==
    LET r == delete_session(Cur, id)
    IN  Called(r.st, "delete", id, NoRec, r.val)

SessionExtend(id) ==
    Called(extend_session(Cur, id), "extend", id, NoRec, get_session(Cur, id) # NoRec)

SessionGet(id) == Called(Cur, "get", id, NoRec, get_session(Cur, id))

SessionCleanup == Called(cleanup_expired_sessions(Cur), "cleanup", 0, NoRec, NoRec)

\* create, update, delete and get, with the clock standing still
NextStore ==
    \/ \E id \in StoreIds, data \in StoreData : SessionCreate(id, data)
    \/ \E id \in StoreIds, data \in StoreData, reread \in BOOLEAN : SessionUpdate(id, data, reread)
    \/ \E id \in StoreIds : SessionDelete(id)
    \/ \E id \in StoreIds : SessionGet(id)

SpecStore == InitStore /\ [][NextStore]_vars

\* All the calls of the service on the sessions of the orchestrator, and time
\* passing
NextStoreTtl ==
    \/ \E id \in Sessions, data \in StoreData : SessionCreate(id, data)
    \/ \E id \in Sessions, data \in StoreData, reread \in BOOLEAN : SessionUpdate(id, data, reread)
    \/ \E id \in Sessions : SessionDelete(id)
    \/ \E id \in Sessions : SessionGet(id)
    \/ \E id \in Sessions : SessionExtend(id)
    \/ SessionCleanup
    \/ \E d \in StoreOffsets : TickRL(T0 + d)

SpecStoreTtl == InitStore /\ [][NextStoreTtl]_vars

---------------------------------------------------------------------------
(* The session store while round trips to Redis raise (redis-py raises a   *)
(* ConnectionError or TimeoutError when a call does not get its answer)    *)

\* How the round trip of a call ends: it is answered; it raises and the
\* command was not run; it raises after the server ran the command
Outcomes == {"answered", "lost", "late"}

\* session_service.py 81-102, [st, val]: the except branch puts the record in
\* fallback_sessions and returns True
create_session_x(S, session_id, data, outcome) ==
    LET d == With(With(data, "created_at", now), "last_updated", now)
        S1 == IF outcome = "lost" THEN S ELSE create_session(S, session_id, data)
    IN  IF UseRedis /\ outcome # "answered"
        THEN [st |-> [S1 EXCEPT !.fallback.sess = Put(@, session_id, d)], val |-> TRUE]
        ELSE [st |-> create_session(S, session_id, data), val |-> TRUE]

\* session_service.py 104-121: the except branch reads fallback_sessions
get_session_x(S, session_id, outcome) ==
    IF UseRedis /\ outcome # "answered"
    THEN Get(S.fallback.sess, session_id, NoRec)
    ELSE get_session(S, session_id)

CalledX(S, op, id, data, ret, outcome) ==
    /\ Len(calls) < MaxStoreCalls
    /\ UseRedis \/ outcome = "answered"
    /\ Commit(S)
    /\ calls' = Append(calls, [op |-> op, id |-> id, t |-> now, data |-> data, ret |-> ret,
                               outcome |-> outcome])
    /\ UNCHANGED <<backend, now, nextId, overlap, rlLog, rlLast>>

SessionCreateX(id, data, outcome) ==
    LET r == create_session_x(Cur, id, data, outcome)
    IN  CalledX(r.st, "create", id, data, r.val, outcome)

SessionGetX(id, outcome) ==
    CalledX(Cur, "get", id, NoRec, get_session_x(Cur, id, outcome), outcome)

NextStoreX ==
    \/ \E id \in StoreIds, data \in StoreData, o \in Outcomes : SessionCreateX(id, data, o)
    \/ \E id \in StoreIds, o \in Outcomes \ {"late"} : SessionGetX(id, o)

SpecStoreX == InitStore /\ [][NextStoreX]_vars

---------------------------------------------------------------------------
(* The cache alone: entries written and looked up while time passes        *)

\* Seconds after T0 at which the clock is read: half the info TTL, the info
\* TTL, the image TTL and beyond
CacheOffsets == {302400, 604800, 907200, 1209600, 1814400}

CacheInfoPut(animal) ==
    Called(cache_animal_info(Cur, animal, "txt_lion", <<"l", "i", "o", "n">>),
           "cache_animal_info", _get_cache_key(animal), NoRec, TRUE)

CacheImagePut(animal) ==
    Called(cache_animal_image(Cur, animal, "img_lion", <<"l", "i", "o", "n">>),
           "cache_animal_image", _get_cache_key(animal), NoRec, TRUE)

CacheInfoGet(animal) ==
    LET r == get_cached_animal_info(Cur, animal)
    IN  Called(r.st, "get_cached_animal_info", _get_cache_key(animal), NoRec, r.val)

CacheImageGet(animal) ==
    LET r == get_cached_animal_image(Cur, animal)
    IN  Called(r.st, "get_cached_animal_image", _get_cache_key(animal), NoRec, r.val)

NextCache ==
    \/ \E animal \in Queries : CacheInfoPut(animal)
    \/ \E animal \in Queries : CacheImagePut(animal)
    \/ \E animal \in Queries : CacheInfoGet(animal)
    \/ \E animal \in Queries : CacheImageGet(animal)
    \/ \E d \in CacheOffsets : TickRL(T0 + d)

SpecCache == InitStore /\ [][NextCache]_vars

---------------------------------------------------------------------------
(* The cache's keys: entries written and looked up under several spellings *)

\* What a research of the query as typed stores (web_app.py 418-429)
InfoOf(animal) ==
    CASE animal = <<"L", "e", "o", " ">> -> "txt_lion"
      [] animal = <<"L", "E", "O">> -> "txt_leon"
      [] OTHER -> "txt_pikachu"

ImageOf(animal) ==
    CASE animal = <<"L", "e", "o", " ">> -> "img_1"
      [] animal = <<"L", "E", "O">> -> "img_2"
      [] OTHER -> "img_3"

KeyInfoPut(animal) ==
    Called(cache_animal_info(Cur, animal, InfoOf(animal), <<"l", "i", "o", "n">>),
           "cache_animal_info", animal, NoRec, TRUE)

KeyImagePut(animal) ==
    Called(cache_animal_image(Cur, animal, ImageOf(animal), <<"l", "i", "o", "n">>),
           "cache_animal_image", animal, NoRec, TRUE)

KeyCompleteGet(animal) ==
    LET r == get_complete_cached_animal(Cur, animal)
    IN  Called(r.st, "get_complete_cached_animal", animal, NoRec, r.val)

NextKey ==
    \/ \E animal \in KeyQueries : KeyInfoPut(animal)
    \/ \E animal \in KeyQueries : KeyImagePut(animal)
    \/ \E animal \in KeyQueries : KeyCompleteGet(animal)
    \/ TickRL(T0 + ANIMAL_INFO_TTL)

SpecKey == InitStore /\ [][NextKey]_vars

---------------------------------------------------------------------------
(* Claims *)

\* The stored session with this id, NoRec when there is none
Stored(i) == get_session(Cur, i)

\* The request has left process_animal_research_sync
RunOver(p) == poll[p].pc \in {"status_reget", "extend", "idle"}

\* The information provider's answer carries validity NO
SaysNo(r) == r.success /\ ContentFields(r.content).valido = "NO"

\* C1: for every session for which the information provider answered with
\* validity NO, the image provider is not invoked for that session, and from
\* the end of the run that got the answer the session is invalid_animal with a
\* non-empty errors list and the parsed suggestions.
C1_NoMeansNoImage ==
    \A p \in Polls :
        SaysNo(poll[p].info_result) =>
            /\ imageCalls[poll[p].sid] = 0
            /\ (RunOver(p) /\ Stored(poll[p].sid) # NoRec) =>
                   LET s == Stored(poll[p].sid)
                   IN  /\ s.status = "invalid_animal"
                       /\ s.errors # <<>>
                       /\ "suggestions" \in DOMAIN s
                       /\ s.suggestions = is_valid_animal(poll[p].info_result.content).suggestions

\* What does hold of a validity NO answer: the run that gets it never reaches
\* the image call, in every interleaving; and when no other poll of the
\* session overlapped, the session is invalid_animal from the end of the run,
\* with errors, the parsed suggestions and no image call for the session.
C1_InvalidSkipsImage ==
    \A p \in Polls :
        SaysNo(poll[p].info_result) =>
            /\ ~poll[p].ran_image
            /\ poll[p].pc \in {"info_reget", "invalid_update", "status_reget", "extend", "idle"}
            /\ (RunOver(p) /\ ~overlap[poll[p].sid] /\ Stored(poll[p].sid) # NoRec) =>
                   LET s == Stored(poll[p].sid)
                   IN  /\ s.status = "invalid_animal"
                       /\ s.errors # <<>>
                       /\ "suggestions" \in DOMAIN s
                       /\ s.suggestions = is_valid_animal(poll[p].info_result.content).suggestions
                       /\ s.image = None
                       /\ imageCalls[poll[p].sid] = 0

C1_Witness ==
    \E p \in Polls :
        /\ SaysNo(poll[p].info_result)
        /\ poll[p].pc = "idle"
        /\ ~overlap[poll[p].sid]
        /\ poll[p].resp.code = 200
        /\ poll[p].resp.body.status = "invalid_animal"
        /\ Len(poll[p].resp.body.suggestions) > 0

\* The poll of p that has answered with a completed record of session i
AnsweredCompleted(p, i) ==
    /\ poll[p].pc = "idle"
    /\ poll[p].sid = i
    /\ poll[p].resp.code = 200
    /\ poll[p].resp.body.status = "completed"

\* A request that arrives for a session stored as completed answers in this
\* step with the stored record, and changes neither store nor calls a provider
PollOfCompleted(p) ==
    (/\ poll[p].pc = "idle"
     /\ poll'[p] # poll[p]
     /\ Stored(poll'[p].sid) # NoRec
     /\ Stored(poll'[p].sid).status = "completed")
    => /\ poll'[p].pc = "idle"
       /\ poll'[p].resp = [code |-> 200, body |-> Stored(poll'[p].sid)]
       /\ redis' = redis
       /\ fallback' = fallback
       /\ infoCalls' = infoCalls
       /\ imageCalls' = imageCalls

\* C2: polls of a session one after the other: every answer with a completed
\* record is the stored record (so all of them are the same record and the
\* stored session has not changed since), a poll of a completed session calls
\* no provider and leaves the stores alone, and over all the polls of the
\* session each provider is called at most once.
C2_IdempotentPolling ==
    /\ [](\A i \in Sessions :
             ~overlap[i] =>
                 /\ infoCalls[i] <= 1
                 /\ imageCalls[i] <= 1
                 /\ \A p \in Polls : AnsweredCompleted(p, i) => poll[p].resp.body = Stored(i))
    /\ [][\A p \in Polls : PollOfCompleted(p)]_vars

C2_Witness ==
    \E i \in Sessions :
        /\ ~overlap[i]
        /\ infoCalls[i] = 1
        /\ imageCalls[i] = 1
        /\ \A p \in Polls : AnsweredCompleted(p, i)

\* C3: whenever get_complete_cached_animal returns a result for a query, both
\* get_cached_animal_info and get_cached_animal_image return one for it in the
\* same state.
C3_CompleteNeedsBoth ==
    \A q \in Queries :
        get_complete_cached_animal(Cur, q).val # NoRec
            => /\ get_cached_animal_info(Cur, q).val # NoRec
               /\ get_cached_animal_image(Cur, q).val # NoRec

\* The first n checks of the metered client met no blacklist entry
Unblocked(n) == \A i \in 1..n : rlLog[i].status # "blacklisted"

\* C4: a client that is neither allow-listed nor blacklisted and starts with no
\* counters makes MINUTE_LIMIT + 1 checks within one minute: the first
\* MINUTE_LIMIT are allowed and the next one is denied with limit type minute,
\* under the durable backend and under the in-memory fallback.
C4_SixthCallDenied ==
    (/\ Len(rlLog) >= MINUTE_LIMIT + 1
     /\ Unblocked(MINUTE_LIMIT + 1)
     /\ rlLog[MINUTE_LIMIT + 1].t - rlLog[1].t < MINUTE_TTL)
    => /\ \A i \in 1..MINUTE_LIMIT : rlLog[i].allowed
       /\ ~rlLog[MINUTE_LIMIT + 1].allowed
       /\ rlLog[MINUTE_LIMIT + 1].limit_type = "minute"

\* C5: every stored session whose status is completed has info and image
\* both non-null, whatever the interleaving of submits and polls.
C5_CompletedHasBoth ==
    \A i \in Sessions :
        (Stored(i) # NoRec /\ Stored(i).status = "completed")
            => Stored(i).info # None /\ Stored(i).image # None

TerminalStatuses == {"completed", "error", "invalid_animal", "rate_limited"}

\* C6: once the stored status of a session is terminal, no step makes it a
\* status that is not terminal.
C6_StatusForward ==
    [][\A i \in Sessions :
          (/\ Stored(i) # NoRec
           /\ Stored(i).status \in TerminalStatuses
           /\ Stored(i)' # NoRec)
          => Stored(i)'.status \in TerminalStatuses]_vars

\* C7: every stored session whose status is error, invalid_animal or
\* rate_limited has at least one entry in its errors list.
C7_ErrorsPresent ==
    \A i \in Sessions :
        (Stored(i) # NoRec /\ Stored(i).status \in {"error", "invalid_animal", "rate_limited"})
            => Len(Stored(i).errors) >= 1

C7_Witness ==
    \E i \in Sessions :
        /\ Stored(i) # NoRec
        /\ Stored(i).status = "rate_limited"
        /\ Len(Stored(i).errors) = 1

\* C8: once the stored info of a session is non-null no step changes it, and
\* the same for its image.
C8_SetOnce ==
    [][\A i \in Sessions :
          (Stored(i) # NoRec /\ Stored(i)' # NoRec)
          => /\ Stored(i).info # None => Stored(i)'.info = Stored(i).info
             /\ Stored(i).image # None => Stored(i)'.image = Stored(i).image]_vars

\* The cache entries and the search analytics
CacheState == <<redis.cinfo, redis.cimage, redis.zset, fallback.cinfo, fallback.cimage>>

\* C9: the step that creates a session (submit) calls no provider, writes no
\* cache entry and starts no request; the count of provider calls changes only
\* in the step in which a poll's awaited provider call returns.
C9_LazySubmit ==
    [][/\ nextId' # nextId
            => /\ infoCalls' = infoCalls
               /\ imageCalls' = imageCalls
               /\ CacheState' = CacheState
               /\ poll' = poll
       /\ infoCalls' # infoCalls
            => \E p \in Polls : poll[p].pc = "info_call" /\ poll'[p] # poll[p]
       /\ imageCalls' # imageCalls
            => \E p \in Polls : poll[p].pc = "image_call" /\ poll'[p] # poll[p]]_vars

C9_Witness ==
    /\ nextId = 1
    /\ Stored(1) # NoRec
    /\ Stored(1).status = "processing"
    /\ infoCalls[1] = 0
    /\ imageCalls[1] = 0
    /\ \A p \in Polls : poll[p] = IdlePoll
    /\ CacheState = <<EmptyMap, EmptyMap, EmptyMap, EmptyMap, EmptyMap>>

\* The run of request p found a complete cache entry for its query
CompleteHit(p) == poll[p].cached_data # NoRec /\ "image" \in DOMAIN poll[p].cached_data

\* C10: when a poll that found the session processing finds a complete cache
\* entry for its query, no provider is invoked for that session, and from the
\* end of its run the session is completed with the cached info and image and
\* from_cache true.
C10_HitMeansNoProvider ==
    \A p \in Polls :
        (CompleteHit(p) /\ Stored(poll[p].sid) # NoRec) =>
            LET s == Stored(poll[p].sid)
            IN  /\ infoCalls[poll[p].sid] = 0
                /\ imageCalls[poll[p].sid] = 0
                /\ RunOver(p) =>
                       /\ s.status = "completed"
                       /\ s.info = poll[p].cached_data.info
                       /\ s.image = poll[p].cached_data.image
                       /\ "from_cache" \in DOMAIN s
                       /\ s.from_cache = TRUE

\* What does hold of a complete cache hit: the run that finds it calls no
\* provider and goes from the lookup to the one write of the session, in
\* every interleaving; and when no other poll of the session overlapped, the
\* session is processing until that write and afterwards completed with the
\* cached info and image and from_cache true, with no provider call for it.
C10_CacheHitShortCircuit ==
    \A p \in Polls :
        CompleteHit(p) =>
            /\ poll[p].info_result = NoResult
            /\ ~poll[p].ran_image
            /\ poll[p].pc = "hit_update" \/ RunOver(p)
            /\ (~overlap[poll[p].sid] /\ Stored(poll[p].sid) # NoRec) =>
                   LET s == Stored(poll[p].sid)
                   IN  /\ infoCalls[poll[p].sid] = 0
                       /\ imageCalls[poll[p].sid] = 0
                       /\ poll[p].pc = "hit_update" => s.status = "processing"
                       /\ RunOver(p) =>
                              /\ s.status = "completed"
                              /\ s.info = poll[p].cached_data.info
                              /\ s.image = poll[p].cached_data.image
                              /\ "from_cache" \in DOMAIN s
                              /\ s.from_cache = TRUE

C10_Witness ==
    \E p \in Polls :
        /\ CompleteHit(p)
        /\ poll[p].pc = "idle"
        /\ ~overlap[poll[p].sid]
        /\ poll[p].resp.code = 200
        /\ poll[p].resp.body.status = "completed"
        /\ poll[p].resp.body.image = "img_1"
        /\ infoCalls[poll[p].sid] = 0

\* The awaited image call of the run of p ended by its 50 s deadline
TimedOut(p) == poll[p].ran_image /\ poll[p].image_result.error = "Image generation timeout"

TimeoutMessage == ErrorMessage("Image error", "Image generation timeout")

\* The step that ends the run of p, after a timed-out image call, leaves the
\* session stored with status error and the timeout message last in errors
TimeoutWrite(p) ==
    (/\ ~RunOver(p)
     /\ RunOver(p)'
     /\ TimedOut(p)'
     /\ Stored(poll[p].sid)' # NoRec)
    => LET s == Stored(poll[p].sid)'
       IN  /\ s.status = "error"
           /\ s.errors # <<>>
           /\ s.errors[Len(s.errors)] = TimeoutMessage

\* A run whose image call timed out is on its way to that write or past it,
\* and the record it is about to write is an error record with the message
TimeoutPath(p) ==
    TimedOut(p) =>
        /\ poll[p].pc \in {"image_reget", "err_update"} \/ RunOver(p)
        /\ poll[p].pc = "err_update" =>
               /\ poll[p].session_data.status = "error"
               /\ poll[p].session_data.errors # <<>>
               /\ poll[p].session_data.errors[Len(poll[p].session_data.errors)] = TimeoutMessage

\* C11: when the image call of a run ends by its deadline, the run goes on,
\* in every interleaving, to store the session with status error and the
\* timeout message appended to errors: the session does not stay
\* generating_image and gets no status of its own.
C11_ImageTimeoutIsError ==
    /\ [](\A p \in Polls : TimeoutPath(p))
    /\ [][\A p \in Polls : TimeoutWrite(p)]_vars

C11_Witness ==
    \E p \in Polls :
        /\ TimedOut(p)
        /\ poll[p].pc = "idle"
        /\ ~overlap[poll[p].sid]
        /\ poll[p].resp.code = 200
        /\ poll[p].resp.body.status = "error"
        /\ poll[p].resp.body.errors = <<TimeoutMessage>>

\* The run of p fetched info and image from the providers and went on to the
\* cache writes and the write of the completed session
FreshDone(p) == poll[p].ran_image /\ poll[p].image_result.success /\ RunOver(p)

\* C12: once a run has brought a session to completed through fresh provider
\* fetches and its cache writes, get_complete_cached_animal for the session's
\* query returns a complete entry whose info and image are the info and image
\* stored in the session.
C12_CacheMatchesSession ==
    \A p \in Polls :
        (/\ FreshDone(p)
         /\ Stored(poll[p].sid) # NoRec
         /\ Stored(poll[p].sid).status = "completed")
        => LET s == Stored(poll[p].sid)
               c == get_complete_cached_animal(Cur, s.animal).val
           IN  /\ c # NoRec
               /\ "image" \in DOMAIN c
               /\ c.info = s.info
               /\ c.image = s.image

\* The last check ran while some round trip to the store raised
FaultyCheck == rlLast # NoRec /\ "faults" \in DOMAIN rlLast /\ rlLast.faults # {}

\* The round trips a check makes before it decides
ReadOps == {<<"bl", "get">>} \cup ({"get"} \X Windows)

WindowLimit(w) == IF w = "minute" THEN MINUTE_LIMIT ELSE IF w = "hour" THEN HOUR_LIMIT ELSE DAY_LIMIT

\* C13 as stated: a check during which any store operation failed (blacklist
\* lookup, counter read or counter increment) returned allowed.
C13_AnyFaultAllowed == FaultyCheck => rlLast.allowed

\* A check denied while round trips raised was denied on what a round trip
\* that went through returned: a blacklist entry, or a counter at its limit
DeniedOnGoodRead ==
    (/\ Len(rlLog') = Len(rlLog) + 1
     /\ FaultyCheck'
     /\ ~rlLast'.allowed)
    => LET F == rlLast'.faults
           ip == rlLast'.ip
           info == rlLast'.info
       IN  \/ /\ info.status = "blacklisted"
              /\ <<"bl", "get">> \notin F
              /\ _is_blacklisted(Cur, ip)
           \/ /\ info.status = "rate_limited"
              /\ <<"get", info.limit_type>> \notin F
              /\ _get_counter(Cur, ip, info.limit_type) >= WindowLimit(info.limit_type)

\* C13, amended: a store operation that fails during a rate-limit check never
\* causes a denial (a failed blacklist lookup counts as not blacklisted, a
\* failed counter read as 0, a failed increment as 1): the check returns
\* allowed when the blacklist lookup and the counter reads all fail, and a
\* check that is denied while some operation failed is denied on a blacklist
\* entry or a counter at its limit that an operation which succeeded returned.
C13_FailOpen ==
    /\ [](FaultyCheck /\ ReadOps \subseteq rlLast.faults => rlLast.allowed)
    /\ [][DeniedOnGoodRead]_vars

\* Every round trip failed for a metered client whose minute counter was at
\* its limit, and the check returned allowed with all counts reported as 1
C13_Witness ==
    /\ FaultyCheck
    /\ rlLast.faults = StoreOps
    /\ rlLast.ip = Metered
    /\ rlLast.allowed
    /\ rlLast.info.limits = [minute |-> 1, hour |-> 1, day |-> 1]
    /\ _get_counter(Cur, Metered, "minute") = MINUTE_LIMIT

\* Call j wrote the session of call k or refreshed its time to live
Touches(j, k) ==
    /\ calls[j].id = calls[k].id
    /\ \/ calls[j].op \in {"create", "update"}
       \/ calls[j].op = "extend" /\ calls[j].ret = TRUE

\* Call k is a get that found a session
Found(k) == calls[k].op = "get" /\ calls[k].ret # NoRec

\* C14: a get that finds a session comes less than SESSION_TTL seconds after
\* a create, an update or an extend of that session; a session left alone for
\* SESSION_TTL seconds is absent from get, under Redis and under the
\* in-memory fallback.
C14_SessionExpiry ==
    \A k \in 1..Len(calls) :
        Found(k) => \E j \in 1..(k - 1) : Touches(j, k) /\ calls[k].t - calls[j].t < SESSION_TTL

\* The same under Redis alone, where setex and expire carry the time to live
C14_RedisSessionExpiry == UseRedis => C14_SessionExpiry

\* The call that writes what a cache lookup reads, and the time it lives
PutOf(op) == IF op = "get_cached_animal_info" THEN "cache_animal_info" ELSE "cache_animal_image"

TtlOf(op) == IF op = "get_cached_animal_info" THEN ANIMAL_INFO_TTL ELSE ANIMAL_IMAGE_TTL

CacheGets == {"get_cached_animal_info", "get_cached_animal_image"}

\* C15: a lookup of a cached info or image that finds an entry comes less
\* than the entry's TTL after a write of that entry; an entry stored with
\* TTL T and not rewritten is absent from the lookup once T has elapsed,
\* under Redis and under the in-memory fallback.
C15_CacheExpiry ==
    \A k \in 1..Len(calls) :
        (calls[k].op \in CacheGets /\ calls[k].ret # NoRec)
        => \E j \in 1..(k - 1) :
               /\ calls[j].op = PutOf(calls[k].op)
               /\ calls[j].id = calls[k].id
               /\ calls[k].t - calls[j].t < TtlOf(calls[k].op)

\* Under the in-memory fallback an image was cached, found by a lookup before
\* its TTL had passed and absent from a lookup exactly ANIMAL_IMAGE_TTL
\* seconds after the write
C15_Witness ==
    /\ backend = "memory"
    /\ Len(calls) = 3
    /\ calls[1].op = "cache_animal_image"
    /\ calls[2].op = "get_cached_animal_image" /\ calls[2].id = calls[1].id
    /\ calls[2].ret # NoRec /\ calls[2].ret.image = "img_lion"
    /\ calls[3].op = "get_cached_animal_image" /\ calls[3].id = calls[1].id
    /\ calls[3].ret = NoRec
    /\ calls[3].t - calls[1].t = ANIMAL_IMAGE_TTL

\* The same under Redis, for a cached info
C15_WitnessRedis ==
    /\ backend = "redis"
    /\ Len(calls) = 3
    /\ calls[1].op = "cache_animal_info"
    /\ calls[2].op = "get_cached_animal_info" /\ calls[2].id = calls[1].id
    /\ calls[2].ret # NoRec /\ calls[2].ret.info = "txt_lion"
    /\ calls[3].op = "get_cached_animal_info" /\ calls[3].id = calls[1].id
    /\ calls[3].ret = NoRec
    /\ calls[3].t - calls[1].t = ANIMAL_INFO_TTL

\* The creates, updates and deletes of the session of call k made before it
WritesBefore(k) ==
    {j \in 1..(k - 1) : calls[j].id = calls[k].id /\ calls[j].op \in {"create", "update", "delete"}}

\* The map's value for the session of call k when call k is made: the dict of
\* the latest create or update, NoRec after a delete or before any write
Expected(k) ==
    LET W == WritesBefore(k)
        last == CHOOSE j \in W : \A i \in W : i <= j
    IN  IF W = {} THEN NoRec
        ELSE IF calls[last].op = "delete" THEN NoRec
        ELSE calls[last].data

\* The service stamps the dict it stores
Stamps == {"created_at", "last_updated"}

\* What get returned is the dict that was handed in, stamps aside
SameData(ret, data) ==
    /\ ret # NoRec
    /\ (DOMAIN data) \ Stamps = (DOMAIN ret) \ Stamps
    /\ \A f \in (DOMAIN data) \ Stamps : ret[f] = data[f]

\* C16: with no time passing and no store failure, after any sequence of
\* create, update and delete calls get(id) returns the data of the latest
\* create or update of id that no delete of id follows, and nothing
\* otherwise; delete(id) returns true exactly when a session for id existed.
C16_StoreIsAMap ==
    \A k \in 1..Len(calls) :
        /\ calls[k].op = "get" =>
               IF Expected(k) = NoRec THEN calls[k].ret = NoRec
               ELSE SameData(calls[k].ret, Expected(k))
        /\ calls[k].op = "delete" => (calls[k].ret = (Expected(k) # NoRec))

\* A session was created, updated, read back as updated and deleted with a
\* true result, while the other id stayed absent
C16_Witness ==
    /\ Len(calls) = 4
    /\ calls[1].op = "create" /\ calls[1].id = 1 /\ calls[1].data.status = "processing"
    /\ calls[2].op = "update" /\ calls[2].id = 1 /\ calls[2].data.status = "getting_info"
    /\ calls[3].op = "get" /\ calls[3].id = 1
    /\ calls[3].ret # NoRec /\ calls[3].ret.status = "getting_info"
    /\ calls[4].op = "delete" /\ calls[4].id = 1 /\ calls[4].ret = TRUE
    /\ get_session(Cur, 1) = NoRec

\* In this step a status request of p arrives for id i, which has no stored
\* session
PollOfAbsent(p, i) ==
    /\ poll[p].pc = "idle"
    /\ poll[p]' # poll[p]
    /\ poll[p].sid' = i
    /\ Stored(i) = NoRec

\* C17: a status request for an id with no stored session (never created,
\* deleted or expired) is answered 404 at once; it stores no session and calls
\* neither provider.
C17_AbsentIsNotFound ==
    [][\A p \in Polls, i \in Sessions :
          PollOfAbsent(p, i)
          => /\ poll[p].resp.code' = 404
             /\ poll[p].pc' = "idle"
             /\ Stored(i)' = NoRec
             /\ redis.sess' = redis.sess
             /\ fallback.sess' = fallback.sess
             /\ infoCalls' = infoCalls
             /\ imageCalls' = imageCalls]_vars

\* The poll request p got 404 for session i
NotFound(p, i) == poll[p].pc = "idle" /\ poll[p].sid = i /\ poll[p].resp.code = 404

\* A status request got 404 for a session that had been created and deleted
C17_Witness ==
    \E p \in Polls, i \in Sessions :
        /\ NotFound(p, i)
        /\ i <= nextId
        /\ now = T0
        /\ Stored(i) = NoRec
        /\ infoCalls[i] = 0 /\ imageCalls[i] = 0

\* ... for a session that had expired in Redis
C17_WitnessExpired ==
    \E p \in Polls, i \in Sessions :
        /\ NotFound(p, i)
        /\ i <= nextId
        /\ now = T0 + SESSION_TTL
        /\ UseRedis

\* ... for an id no session was ever created with
C17_WitnessNeverCreated ==
    \E p \in Polls, i \in Sessions : NotFound(p, i) /\ nextId < i

\* The message the user gets for a denial with this limiter information
DenialMessage(limit_info) ==
    ErrorMessage("rate_limited",
                 IF "limit_type" \in DOMAIN limit_info THEN limit_info.limit_type
                 ELSE limit_info.status)

\* The session is the one a denied submission leaves
DeniedSession(s) ==
    /\ s.status = "rate_limited"
    /\ \E n \in 1..Len(s.errors) : s.errors[n] = DenialMessage(s.rate_limit_info)
    /\ "retry_after" \in DOMAIN s.rate_limit_info
    /\ s.rate_limit_info.retry_after > 0

\* In this step a submission arrives and gets session id i; if the limiter
\* denies its client the session stored for it is a denied one
SubmitKept(i) ==
    (nextId = i - 1 /\ nextId' = i)
    => /\ Stored(i)' # NoRec
       /\ \A c \in Clients :
              (Stored(i)'.rate_limit_info.ip = c /\ ~check_rate_limit(Cur, c).allowed)
              => DeniedSession(Stored(i))'

\* A step of a status request leaves a rate limited session stored and rate
\* limited
RateLimitedStays(i) ==
    (poll' # poll /\ Stored(i) # NoRec /\ Stored(i).status = "rate_limited")
    => (Stored(i)' # NoRec /\ Stored(i)'.status = "rate_limited")

\* C18: a submission the rate limiter denies still creates a session: its
\* status is rate_limited, its errors hold the denial message and its
\* rate_limit_info carries retry_after; no status request changes that
\* status, and none calls a provider for the session.
C18_DeniedIsKept ==
    /\ [](\A i \in Sessions :
            (Stored(i) # NoRec /\ Stored(i).status = "rate_limited")
            => (DeniedSession(Stored(i)) /\ infoCalls[i] = 0 /\ imageCalls[i] = 0))
    /\ [][\A i \in Sessions : SubmitKept(i) /\ RateLimitedStays(i)]_vars

\* A status request for a session of a denied submission was answered with
\* the rate limited session, and no provider was called
C18_Witness ==
    \E p \in Polls, i \in Sessions :
        /\ poll[p].pc = "idle" /\ poll[p].sid = i
        /\ poll[p].resp.code = 200
        /\ poll[p].resp.body.status = "rate_limited"
        /\ poll[p].resp.body.rate_limit_info.retry_after = 60
        /\ DeniedSession(Stored(i))
        /\ infoCalls[i] = 0 /\ imageCalls[i] = 0

\* The store with every counter of client a also kept for client b
WithCountersOf(S, a, b) ==
    LET RKeys == {k \in DOMAIN S.redis.ctr : k[1] = a}
        FKeys == {k \in DOMAIN S.fallback.ctr : k[1] = a}
        rctr == [k \in (DOMAIN S.redis.ctr) \cup {<<b, k[2]>> : k \in RKeys} |->
                    IF k[1] = b THEN S.redis.ctr[<<a, k[2]>>] ELSE S.redis.ctr[k]]
        fctr == [k \in (DOMAIN S.fallback.ctr) \cup {<<b, k[2], k[3]>> : k \in FKeys} |->
                    IF k[1] = b THEN S.fallback.ctr[<<a, k[2], k[3]>>] ELSE S.fallback.ctr[k]]
    IN  [S EXCEPT !.redis.ctr = rctr, !.fallback.ctr = fctr]

Listed == Clients \cap WHITELIST_IPS

\* Whatever its counters hold, a check of an allow-listed client returns
\* allowed and the store it was given
AllowedWhateverCounters(c) ==
    LET S == WithCountersOf(Cur, Metered, c)
        r == check_rate_limit(S, c)
    IN  r.allowed /\ r.info.status = "whitelisted" /\ r.st = S

\* In this step a check of an allow-listed client returns
ListedCheck == rlLast' # rlLast /\ rlLast'.ip \in Listed

\* C19: a rate-limit check of an allow-listed client returns allowed and
\* leaves every window counter (and the rest of the store) as it was,
\* whatever that client's counters hold and even when the client is
\* blacklisted.
C19_AllowListBypass ==
    /\ [](\A c \in Listed : AllowedWhateverCounters(c))
    /\ [][ListedCheck
          => /\ rlLast'.allowed
             /\ rlLast'.info.status = "whitelisted"
             /\ redis' = redis
             /\ fallback' = fallback]_vars

\* A check of an allow-listed client returned allowed while the client was
\* blacklisted and the metered client's minute counter stood at its limit
C19_Witness ==
    /\ rlLast # NoRec
    /\ rlLast.ip \in Listed
    /\ rlLast.allowed
    /\ _is_blacklisted(Cur, rlLast.ip)
    /\ _get_counter(WithCountersOf(Cur, Metered, rlLast.ip), rlLast.ip, "minute") = MINUTE_LIMIT

\* The store holds a blacklist entry for client c that has not run out
LiveBlacklistEntry(c) ==
    IF UseRedis THEN c \in DOMAIN redis.bl /\ redis.bl[c].exp > now
    ELSE c \in DOMAIN fallback.bl

\* In this step a check of the metered client returns, and its blacklist
\* lookup went through
MeteredCheck ==
    /\ Len(rlLog') = Len(rlLog) + 1
    /\ rlLast'.ip = Metered
    /\ "faults" \in DOMAIN rlLast' => <<"bl", "get">> \notin rlLast'.faults

\* C20: every rate-limit check of a client that is not allow-listed and has a
\* live blacklist entry returns denied with status blacklisted, whatever its
\* minute, hour and day counters hold, and leaves those counters unchanged.
C20_BlacklistedDenied ==
    [][(MeteredCheck /\ LiveBlacklistEntry(Metered))
       => /\ ~rlLast'.allowed
          /\ rlLast'.info.status = "blacklisted"
          /\ redis.ctr' = redis.ctr
          /\ fallback.ctr' = fallback.ctr]_vars

\* Two checks in a row of the blacklisted metered client were denied as
\* blacklisted while its minute counter stood below the limit
C20_Witness ==
    /\ Len(rlLog) >= 3
    /\ rlLast.ip = Metered
    /\ LiveBlacklistEntry(Metered)
    /\ rlLog[Len(rlLog)].status = "blacklisted"
    /\ ~rlLog[Len(rlLog)].allowed
    /\ rlLog[Len(rlLog) - 1].status = "blacklisted"
    /\ _get_counter(Cur, Metered, "minute") \in 1..(MINUTE_LIMIT - 1)

\* The information provider has answered the run of p
InfoAnswered(p) == poll[p].info_result # NoResult

\* The content carries the marker **VALIDO:** followed by SI
SaysYes(content) ==
    LET valido == ContentFields(content).valido
    IN  valido # None /\ UpperStrip(valido) = "SI"

\* It answered with success, with a content marked valid
RunValid(p) ==
    /\ poll[p].info_result.success
    /\ SaysYes(poll[p].info_result.content)

\* The positions of a run from the information provider's answer to its end
\* that lie off the way to the image provider
NoImagePcs == {"info_reget", "err_update", "invalid_update", "exc_get", "exc_update",
               "status_reget", "extend", "idle"}

\* C21: in every run the image provider is called only after the information
\* provider answered with success in that run and is_valid_animal said valid
\* of the content; after a failure of the information provider, a validity
\* NO or a content with no validity marker the run ends with no image call.
C21_ImageAfterValidInfo ==
    /\ [](\A p \in Polls :
            /\ (poll[p].pc \in {"image_call", "image_reget"} \/ poll[p].ran_image) => RunValid(p)
            /\ (InfoAnswered(p) /\ ~RunValid(p))
                  => (~poll[p].ran_image /\ poll[p].pc \in NoImagePcs))
    /\ [][\A i \in Sessions :
             imageCalls[i]' > imageCalls[i]
             => \E p \in Polls : poll[p].pc = "image_call" /\ poll[p].sid = i /\ RunValid(p)]_vars

\* A run got a content with no validity marker and ended with the session
\* invalid_animal and the image provider never called
C21_Witness ==
    \E p \in Polls :
        /\ poll[p].info_result.success
        /\ poll[p].info_result.content = "txt_garbled"
        /\ poll[p].pc = "idle"
        /\ ~poll[p].ran_image
        /\ poll[p].resp.code = 200
        /\ poll[p].resp.body.status = "invalid_animal"
        /\ imageCalls[poll[p].sid] = 0

\* A provider answered the run of p with a failure
InfoFailed(p) == InfoAnswered(p) /\ ~poll[p].info_result.success

ImageFailed(p) == poll[p].ran_image /\ ~poll[p].image_result.success

FailedRun(p) == InfoFailed(p) \/ ImageFailed(p)

\* The message the run appends for it
FailureMessage(p) ==
    IF InfoFailed(p) THEN ErrorMessage("Info error", poll[p].info_result.error)
    ELSE ErrorMessage("Image error", poll[p].image_result.error)

EndsInError(s, p) ==
    /\ s.status = "error"
    /\ s.errors # <<>>
    /\ s.errors[Len(s.errors)] = FailureMessage(p)

\* A run whose provider failed is reading the session back, about to write
\* the error record, or over: it is not on its way to a provider again
FailurePath(p) ==
    FailedRun(p) =>
        /\ poll[p].pc \in {"info_reget", "image_reget", "err_update"} \/ RunOver(p)
        /\ poll[p].pc = "err_update" => EndsInError(poll[p].session_data, p)

\* The step in which the run builds the error record from the session it read
\* back adds one message to the errors it read
AppendsOne(p) ==
    (/\ poll[p].pc \in {"info_call", "image_call", "info_reget", "image_reget"}
     /\ poll[p].pc' = "err_update" \/ RunOver(p)'
     /\ FailedRun(p)'
     /\ Stored(poll[p].sid) # NoRec)
    => LET Built == IF poll[p].pc' = "err_update" THEN poll[p].session_data'
                    ELSE Stored(poll[p].sid)'
       IN  Len(Built.errors) = Len(Stored(poll[p].sid).errors) + 1

\* The step that ends the run leaves the session stored with status error and
\* the message last in its errors
FailureWrite(p) ==
    (/\ ~RunOver(p)
     /\ RunOver(p)'
     /\ FailedRun(p)'
     /\ Stored(poll[p].sid)' # NoRec)
    => EndsInError(Stored(poll[p].sid), p)'

\* C22: when the information provider or the image provider answers a run
\* with a failure, the run appends one message to the session's errors, sets
\* status error, writes the session and stops: it does not call the failed
\* provider (or any provider) again.
C22_NoRetry ==
    /\ [](\A p \in Polls : FailurePath(p))
    /\ [][\A p \in Polls : AppendsOne(p) /\ FailureWrite(p)]_vars

\* The information provider failed the only run of a session: the session is
\* in error with the one message, and the provider was called once
C22_Witness ==
    \E p \in Polls :
        /\ InfoFailed(p)
        /\ poll[p].pc = "idle"
        /\ ~overlap[poll[p].sid]
        /\ poll[p].resp.code = 200
        /\ poll[p].resp.body.status = "error"
        /\ poll[p].resp.body.errors = <<FailureMessage(p)>>
        /\ infoCalls[poll[p].sid] = 1
        /\ imageCalls[poll[p].sid] = 0

\* A status request for session i has arrived
Polled(i) == \E p \in Polls : poll[p].sid = i /\ (poll[p].pc # "idle" \/ poll[p].resp.code = 200)

Terminal(i) == Stored(i) # NoRec /\ Stored(i).status \in TerminalStatuses

\* The order of the positions of a request: every step moves forward in it
Rank(pc) ==
    CASE pc = "proc_get" -> 1
      [] pc = "cache_get_info" -> 2
      [] pc = "cache_get_image" -> 3
      [] pc \in {"hit_update", "miss_update"} -> 4
      [] pc = "info_call" -> 5
      [] pc = "info_reget" -> 6
      [] pc = "genimg_update" -> 7
      [] pc = "image_call" -> 8
      [] pc = "image_reget" -> 9
      [] pc = "cache_put_info" -> 10
      [] pc = "cache_put_image" -> 11
      [] pc = "done_update" -> 12
      [] pc \in {"invalid_update", "err_update"} -> 13
      [] pc = "exc_get" -> 14
      [] pc = "exc_update" -> 15
      [] pc = "status_reget" -> 16
      [] pc = "extend" -> 17
      [] pc = "idle" -> 18
      [] OTHER -> 0

\* A run of the research for session i has not yet returned to get_status
InFlight(i) == \E p \in Polls : poll[p].sid = i /\ ~RunOver(p)

\* Every position a request can be at is one RunStep(p) has a step for
Advances(p) == Rank(poll[p].pc) > 0

\* A step of a request that is under way moves it forward
MovesForward(p) ==
    (poll[p].pc # "idle" /\ poll[p]' # poll[p]) => Rank(poll[p].pc') > Rank(poll[p].pc)

\* Every request is at a position RunStep(p) has a step for, every step of a
\* request moves it forward in the finite order Rank, and a polled session
\* that is not terminal has a run of the research under way
RunsEndTerminal ==
    /\ [](\A i \in Sessions :
            (Stored(i) # NoRec /\ Polled(i) /\ ~Terminal(i)) => InFlight(i))
    /\ [](\A p \in Polls : Advances(p))
    /\ [][\A p \in Polls : MovesForward(p)]_vars

\* C23: every stored session for which a status request has arrived
\* eventually has a terminal status (completed, error, invalid_animal or
\* rate_limited), when every provider call returns or times out and the
\* session does not leave the store; no session stays processing,
\* getting_info or generating_image for ever.
C23_EventuallyTerminal ==
    \A i \in Sessions : (Stored(i) # NoRec /\ Polled(i)) ~> Terminal(i)

\* The session was created processing, polled once, and is completed with the
\* request answered
C23_Witness ==
    \E p \in Polls, i \in Sessions :
        /\ poll[p].sid = i
        /\ poll[p].pc = "idle"
        /\ poll[p].resp.code = 200
        /\ poll[p].resp.body.status = "completed"
        /\ Terminal(i)
        /\ infoCalls[i] = 1
        /\ \A q \in Polls \ {p} : poll[q] = IdlePoll

\* Both entries of the query are cached: get_complete_cached_animal returns
\* the info and the image
FullyCached(animal) ==
    LET cached_data == get_complete_cached_animal(Cur, animal).val
    IN  cached_data # NoRec /\ "image" \in DOMAIN cached_data

CountersOf(client_ip) == [w \in Windows |-> _get_counter(Cur, client_ip, w)]

\* Session i is created by this step, for a query that is a complete cache hit
CreatesHit(i) == nextId = i - 1 /\ nextId' = i /\ FullyCached(Stored(i)'.animal)

\* C24: the rate limiter is consulted during the first poll and only after a
\* cache miss: no step that creates a session for a query that is a complete
\* cache hit, and no step of a status request, changes a counter of any
\* client.
C24_HitIsNotMetered ==
    [][\A c \in Clients :
          ((\E i \in Sessions : CreatesHit(i)) \/ poll' # poll)
          => CountersOf(c)' = CountersOf(c)]_vars

\* The run of request p found the info entry of its query cached and the image
\* entry absent
PartialHit(p) ==
    /\ poll[p].cached_data # NoRec
    /\ "image" \notin DOMAIN poll[p].cached_data

\* C25: a partial cache result is treated as a miss: a run that finds only the
\* info entry of its query cached does not complete the session from cache and
\* raises no error before it has called a provider; it goes on to the
\* information call, so that when it is over the provider has answered it.
C25_PartialIsMiss ==
    \A p \in Polls :
        PartialHit(p) =>
            /\ poll[p].pc # "hit_update"
            /\ ~InfoAnswered(p) => (poll[p].exc = None /\ ~RunOver(p))

\* The windows of client c whose counter has reached its limit
AtLimit(c) == {w \in Windows : CountersOf(c)[w] >= WindowLimit(w)}

\* The finest of a set of windows: minute before hour before day
Finest(ws) == IF "minute" \in ws THEN "minute" ELSE IF "hour" \in ws THEN "hour" ELSE "day"

RetryAfter(w) == IF w = "minute" THEN 60 ELSE IF w = "hour" THEN 3600 ELSE 86400

\* C26: denial reason priority: a check of a client that is neither
\* allow-listed nor blacklisted, made when one or more of its window counters
\* have reached their limit, is denied and reports the finest of those
\* windows, minute before hour before day, with retry_after 60, 3600 and
\* 86400 seconds respectively.
C26_FinestWindowFirst ==
    [][(MeteredCheck /\ ~_is_blacklisted(Cur, Metered) /\ AtLimit(Metered) # {})
       => /\ ~rlLast'.allowed
          /\ rlLast'.info.status = "rate_limited"
          /\ rlLast'.info.limit_type = Finest(AtLimit(Metered))
          /\ rlLast'.info.retry_after = RetryAfter(Finest(AtLimit(Metered)))]_vars

\* A check found all three counters at their limit and reported the minute
C26_Witness ==
    /\ rlLog # <<>>
    /\ rlLast # NoRec
    /\ rlLast.ip = Metered
    /\ AtLimit(Metered) = Windows
    /\ ~_is_blacklisted(Cur, Metered)
    /\ rlLast.info.status = "rate_limited"
    /\ rlLast.info.limit_type = "minute"
    /\ rlLast.info.retry_after = 60

\* A check found the hour and the day counter at their limit, the minute
\* counter below it, and reported the hour
C26_WitnessHour ==
    /\ rlLog # <<>>
    /\ rlLast # NoRec
    /\ rlLast.ip = Metered
    /\ AtLimit(Metered) = {"hour", "day"}
    /\ ~_is_blacklisted(Cur, Metered)
    /\ rlLast.info.status = "rate_limited"
    /\ rlLast.info.limit_type = "hour"
    /\ rlLast.info.retry_after = 3600

\* In this step a check of client c returns
CheckOf(c) == rlLast' # NoRec /\ rlLast'.ip = c /\ (rlLog' # rlLog \/ rlLast' # rlLast)

C27_WitnessDenied ==
    /\ Len(rlLog) = 1
    /\ rlLast.ip = Metered
    /\ rlLast.info.status = "rate_limited"
    /\ rlLast.info.limit_type = "hour"
    /\ CountersOf(Metered) = [minute |-> MINUTE_LIMIT - 1, hour |-> HOUR_LIMIT, day |-> 0]

\* The checks of the metered client that returned allowed; all of them fall
\* in one minute, hour and day window
AllowedChecks == {i \in 1..Len(rlLog) : rlLog[i].allowed}

\* C28: under the durable backend counter increments are atomic: whatever the
\* interleaving of the round trips of concurrent allowed checks of one client
\* inside one window, once the checks have returned each counter stands at
\* the number of allowed checks made in the window (no increment is lost).
C28_NoLostIncrement ==
    (UseRedis /\ UnderWay = {}) =>
        \A w \in Windows : CountersOf(Metered)[w] = Cardinality(AllowedChecks)

\* C29: under any interleaving of concurrent rate-limit checks of one client
\* that is not allow-listed, the number of checks that return allowed within
\* one minute window never exceeds the minute limit.
C29_NeverOverLimit == Cardinality(AllowedChecks) <= MINUTE_LIMIT

\* Request q has read session i as processing and has not yet written it
ReadPending(q, i) ==
    /\ poll[q].sid = i
    /\ poll[q].pc \in {"proc_get", "cache_get_info", "cache_get_image", "miss_update"}

\* A status request p for session i arrives in this step
Arrives(p, i) == poll[p].pc = "idle" /\ poll[p]' # poll[p] /\ poll[p].sid' = i

\* The first write of the run of request p (297-301) stores the record the
\* request read when it arrived, with status getting_info, whatever the store
\* holds by then
FirstWrite(p, i) ==
    (poll[p].pc = "miss_update" /\ poll[p].sid = i /\ poll[p]' # poll[p])
    => Stored(i)' = With([poll[p].session_data EXCEPT !.status = "getting_info"],
                         "last_updated", now)

\* C30: there is no claim step: a status request that reads a session as
\* processing while another request has read it so and not yet written also
\* runs the research, and the first write of each run stores its own copy of
\* the record over whatever the other run wrote (last writer wins).  The
\* providers can then be invoked more than once for one session (C30_Witness).
C30_NoClaimStep ==
    [][\A i \in Sessions, p \in Polls :
          /\ (Arrives(p, i) /\ Stored(i) # NoRec /\ Stored(i).status = "processing"
                /\ \E q \in Polls \ {p} : ReadPending(q, i))
              => poll[p].pc' = "proc_get"
          /\ FirstWrite(p, i)]_vars

\* Two requests ran the research for one session: each provider was invoked
\* twice, and the write of the second run replaced the completed record the
\* first run had stored and answered with
C30_Witness ==
    \E i \in Sessions, p \in Polls, q \in Polls :
        /\ p # q
        /\ poll[p].sid = i /\ poll[q].sid = i
        /\ poll[p].pc = "idle"
        /\ poll[p].resp.code = 200
        /\ poll[p].resp.body.status = "completed"
        /\ poll[q].pc = "image_reget"
        /\ Stored(i).status = "generating_image"
        /\ infoCalls[i] = 2
        /\ imageCalls[i] = 2

\* What a poll answers with, apart from the bookkeeping fields
Content(data) ==
    [status |-> data.status, info |-> data.info, image |-> data.image, errors |-> data.errors]

\* The step invokes no provider and leaves the content of session i as it was
Untouched(i) ==
    /\ Stored(i)' # NoRec
    /\ Content(Stored(i))' = Content(Stored(i))
    /\ infoCalls' = infoCalls
    /\ imageCalls' = imageCalls

\* A status request arrives for session i and reads a status other than
\* processing
ObservesStarted(p, i) ==
    /\ Arrives(p, i)
    /\ Stored(i) # NoRec
    /\ Stored(i).status # "processing"

\* C31: a poll that observes a session in any status other than processing
\* (getting_info, generating_image or any terminal status) starts no run of
\* the research: it goes on to the answer (at most the extension of the time
\* to live before it), invokes no provider and leaves the session's status,
\* info, image and errors unchanged.
C31_LaterPollsOnlyRead ==
    [][\A i \in Sessions, p \in Polls :
          /\ ObservesStarted(p, i) => (poll[p].pc' \in {"extend", "idle"} /\ Untouched(i))
          /\ (poll[p].pc = "extend" /\ poll[p].sid = i /\ poll[p]' # poll[p])
              => (poll[p].pc' = "idle" /\ Untouched(i))]_vars

\* A poll found the session getting_info while the first request waits for
\* the information provider, and has answered with that status
C31_Witness ==
    \E i \in Sessions, p \in Polls, q \in Polls :
        /\ p # q
        /\ poll[q].sid = i /\ poll[q].pc = "info_call"
        /\ poll[p].sid = i /\ poll[p].pc = "idle"
        /\ poll[p].resp.code = 200
        /\ poll[p].resp.body.status = "getting_info"
        /\ poll[p].info_result = NoResult
        /\ Stored(i).status = "getting_info"
        /\ infoCalls[i] = 0

\* The times at which client c was blacklisted, and the last of them
BlacklistedAt(c) == {calls[n].t : n \in {m \in 1..Len(calls) : calls[m].op = "blacklist" /\ calls[m].id = c}}

LastBlacklisted(c) == CHOOSE t \in BlacklistedAt(c) : \A u \in BlacklistedAt(c) : u <= t

\* C32: a blacklist entry lapses: once BLACKLIST_TTL (3600 s) has elapsed since
\* a client was blacklisted, a check of that client is not denied as
\* blacklisted, under the Redis backend and under the in-memory fallback.
C32_BlacklistLapses ==
    [][(MeteredCheck /\ BlacklistedAt(Metered) # {}
          /\ now >= LastBlacklisted(Metered) + BLACKLIST_TTL)
       => rlLast'.info.status # "blacklisted"]_vars

\* C33: when a check denies a blacklisted client, the retry_after it returns
\* is the remaining lifetime of the client's blacklist entry at the time of
\* the check.
C33_RetryAfterIsRemaining ==
    [][(MeteredCheck /\ rlLast'.info.status = "blacklisted" /\ BlacklistedAt(Metered) # {})
       => rlLast'.info.retry_after = LastBlacklisted(Metered) + BLACKLIST_TTL - now]_vars

\* When Redis drops the key of session i
ExpiresAt(i) == redis.sess[i].exp

\* C34: a poll refreshes the time to live of a session only while the job is
\* in flight: no step of a status request for a session whose stored status
\* is terminal (completed, error, invalid_animal or rate_limited) changes the
\* time at which the session expires.
C34_TerminalNotExtended ==
    [][\A i \in Sessions, p \in Polls :
          (/\ UseRedis
           /\ poll[p]' # poll[p] /\ poll[p].sid' = i
           /\ Terminal(i)
           /\ i \in DOMAIN redis.sess')
          => ExpiresAt(i)' = ExpiresAt(i)]_vars


\* What the three lookups return for a query in this state
Lookups(animal) ==
    <<get_cached_animal_info(Cur, animal).val,
      get_cached_animal_image(Cur, animal).val,
      get_complete_cached_animal(Cur, animal).val>>

\* Spellings with the same lower-cased, trimmed form
SameForm(a, b) == Normalize(a) = Normalize(b)

\* The calls that cached an entry of the kind op for a spelling of animal
PutsFor(animal, op) ==
    {j \in 1..Len(calls) : calls[j].op = op /\ SameForm(calls[j].id, animal)}

LastOf(js) == CHOOSE j \in js : \A k \in js : k <= j

\* The query whose entry of the kind op a lookup of animal is to find, and
\* the second it was cached: the latest that was cached for a spelling of
\* animal, while it lives; NoRec when there is none
Source(animal, op, ttl) ==
    LET js == PutsFor(animal, op)
    IN  IF js # {} /\ now - calls[LastOf(js)].t < ttl
        THEN [of |-> calls[LastOf(js)].id, at |-> calls[LastOf(js)].t]
        ELSE NoRec

\* C35: the lookups of a query return what was last cached for a query of
\* the same lower-cased, trimmed form and nothing else: two spellings of one
\* form read and write the same info and image entries, caching under a
\* query of another form changes no lookup, and the info and the image of a
\* complete hit were both cached for spellings of the query looked up.
C35_KeyedByNormalForm ==
    \A b \in KeyQueries :
        LET i == Source(b, "cache_animal_info", ANIMAL_INFO_TTL)
            g == Source(b, "cache_animal_image", ANIMAL_IMAGE_TTL)
            hit == Lookups(b)[3]
        IN  /\ \A a \in KeyQueries : SameForm(a, b) => Lookups(a) = Lookups(b)
            /\ IF i = NoRec THEN Lookups(b)[1] = NoRec
               ELSE /\ Lookups(b)[1] # NoRec
                    /\ Lookups(b)[1].info = InfoOf(i.of)
                    /\ Lookups(b)[1].cached_at = i.at
            /\ IF g = NoRec THEN Lookups(b)[2] = NoRec
               ELSE /\ Lookups(b)[2] # NoRec
                    /\ Lookups(b)[2].image = ImageOf(g.of)
                    /\ Lookups(b)[2].cached_at = g.at
            /\ IF i = NoRec THEN hit = NoRec
               ELSE /\ hit # NoRec
                    /\ hit.info = InfoOf(i.of)
                    /\ "image" \in DOMAIN hit <=> g # NoRec
                    /\ g # NoRec => hit.image = ImageOf(g.of)

\* An info cached under "Leo " and an image cached under "LEO" were served
\* together as a complete hit for "LEO", while "pik" had an info of its own
C35_Witness ==
    /\ Len(calls) = 4
    /\ calls[1].op = "cache_animal_info" /\ calls[1].id = <<"L", "e", "o", " ">>
    /\ calls[2].op = "cache_animal_info" /\ calls[2].id = <<"p", "i", "k">>
    /\ calls[3].op = "cache_animal_image" /\ calls[3].id = <<"L", "E", "O">>
    /\ calls[4].op = "get_complete_cached_animal" /\ calls[4].id = <<"L", "E", "O">>
    /\ calls[4].ret # NoRec
    /\ calls[4].ret.info = "txt_lion" /\ calls[4].ret.image = "img_2"
    /\ Lookups(<<"p", "i", "k">>)[1].info = "txt_pikachu"
    /\ Lookups(<<"p", "i", "k">>)[2] = NoRec

\* The info and image entries of the cache
Entries == <<redis.cinfo, redis.cimage, fallback.cinfo, fallback.cimage>>

\* The run of this request got an information, found it valid and got an image
Passed(L) ==
    /\ L.info_result.success
    /\ is_valid_animal(L.info_result.content).is_valid
    /\ L.image_result.success

\* The step is made by the run of p after its image call returned, and in
\* the step the run has passed the three stages without a cache hit
Stores(p) ==
    /\ poll[p].pc \in {"image_call", "image_reget", "cache_put_info", "cache_put_image"}
    /\ poll'[p] # poll[p]
    /\ Passed(poll'[p])
    /\ poll'[p].cached_data = NoRec

\* The entries of the two maps kept under other keys than that of animal
Others(map, animal) ==
    [k \in (DOMAIN map) \ {_get_cache_key(animal)} |-> map[k]]

\* C36: the info and image entries of the cache change only in a step of a
\* run that got an information, found it valid and got an image, and then
\* only under the key of that run's query: a submission (rate-limited or
\* not), a run that ends in error or invalid input and a run served from a
\* cache hit leave every entry as it was.
C36_WrittenOnSuccessOnly ==
    [][Entries' # Entries =>
          \E p \in Polls :
              /\ Stores(p)
              /\ \A n \in 1..4 : Others(Entries'[n], poll[p].animal) = Others(Entries[n], poll[p].animal)]_vars

\* A run for "Leo " that passed the three stages left both entries in a
\* cache that had none, and its session is completed
C36_Witness ==
    /\ \E p \in Polls : poll[p].pc = "idle" /\ Passed(poll[p]) /\ poll[p].image_result.image_data_url = "img_2"
    /\ get_cached_animal_info(Cur, <<"l", "e", "o">>).val # NoRec
    /\ get_cached_animal_image(Cur, <<"l", "e", "o">>).val # NoRec
    /\ get_cached_animal_image(Cur, <<"l", "e", "o">>).val.image = "img_2"
    /\ Stored(1) # NoRec /\ Stored(1).status = "completed"

\* Runs ended in error, in invalid input and from a cache hit, and a
\* rate-limited session was polled
C36_WitnessError ==
    \E p \in Polls : poll[p].pc = "idle" /\ poll[p].resp.code = 200 /\ poll[p].resp.body.status = "error"

C36_WitnessInvalid ==
    \E p \in Polls : poll[p].pc = "idle" /\ poll[p].resp.code = 200 /\ poll[p].resp.body.status = "invalid_animal"

C36_WitnessHit ==
    \E p \in Polls : poll[p].pc = "idle" /\ poll[p].cached_data # NoRec /\ poll[p].resp.code = 200

\* The length of a window
LengthOf(w) == CASE w = "minute" -> MINUTE_TTL [] w = "hour" -> HOUR_TTL [] OTHER -> DAY_TTL

\* The checks of the metered client allowed before check k and no more than
\* a window length before it
AllowedBefore(k, w) ==
    {j \in 1..(k - 1) : rlLog[j].allowed /\ rlLog[k].t - rlLog[j].t <= LengthOf(w)}

\* C37: a check of a client that is not blacklisted is denied for a window
\* (minute, hour, day) only if at least the limit of that window of the
\* client's checks were allowed during the window length before it; a
\* counter is not kept alive by later allowed requests.
C37_NoFalseDenial ==
    \A k \in 1..Len(rlLog) :
        rlLog[k].status = "rate_limited"
        => Cardinality(AllowedBefore(k, rlLog[k].limit_type)) >= WindowLimit(rlLog[k].limit_type)

\* The same where the counters are those of the in-memory fallback
C37_FallbackNoFalseDenial == ~UseRedis => C37_NoFalseDenial

\* The second a logged check arrived; a check made in one step arrives when
\* it is answered
ArrivedAt(e) == IF "at" \in DOMAIN e THEN e.at ELSE e.t

\* Check j was issued before check k was answered
IssuedBefore(j, k) ==
    IF "at" \in DOMAIN rlLog[j] THEN rlLog[j].at < rlLog[k].t ELSE j < k

\* Check k was denied for a window, check n arrived no sooner than the
\* retry-after of that denial (the length of the window) later, and the
\* client issued no other check since the denial
WaitedOut(k, n) ==
    /\ k # n
    /\ rlLog[k].status = "rate_limited"
    /\ ArrivedAt(rlLog[n]) >= rlLog[k].t + LengthOf(rlLog[k].limit_type)
    /\ \A j \in (1..Len(rlLog)) \ {k, n} : IssuedBefore(j, k)
    /\ \A p \in Polls : poll[p].pc # "idle" => poll[p].at < rlLog[k].t

\* C38: if a check is denied for a window (minute, hour or day) with
\* retry-after r and the client issues no further requests for r seconds,
\* the next check is not denied for that same window.
C38_RetryAfterHonoured ==
    \A k, n \in 1..Len(rlLog) :
        WaitedOut(k, n) =>
            ~(rlLog[n].status = "rate_limited" /\ rlLog[n].limit_type = rlLog[k].limit_type)

\* A client denied for the minute waited out the retry-after and was checked
C38_Waited ==
    \E k, n \in 1..Len(rlLog) : WaitedOut(k, n) /\ rlLog[k].limit_type = "minute"

\* Call k is a get of the session that call k - 1 created with success
GetAfterCreate(k) ==
    /\ k > 1
    /\ calls[k].op = "get"
    /\ calls[k - 1].op = "create"
    /\ calls[k - 1].id = calls[k].id
    /\ calls[k - 1].ret = TRUE

\* C39: whenever create(id, data) reports success, a get(id) that follows it
\* immediately returns that record, also when Redis raised during the write
\* and the record was placed in the in-process mapping.
C39_CreatedIsReadable ==
    \A k \in 1..Len(calls) :
        GetAfterCreate(k) =>
            /\ calls[k].ret # NoRec
            /\ \A f \in DOMAIN calls[k - 1].data : calls[k].ret[f] = calls[k - 1].data[f]

\* The same of the calls whose round trips were all answered
C39_AnsweredIsReadable ==
    \A k \in 1..Len(calls) :
        (GetAfterCreate(k) /\ calls[k].outcome = "answered" /\ calls[k - 1].outcome = "answered")
        => /\ calls[k].ret # NoRec
           /\ \A f \in DOMAIN calls[k - 1].data : calls[k].ret[f] = calls[k - 1].data[f]

====
